---------------------------- MODULE Spec2Model ----------------------------
(***************************************************************************)
(* Verification model of the pump.fun migration alert bot.                 *)
(*                                                                         *)
(*  - strings are sequences of one-character strings, so that includes,    *)
(*    endsWith, length and toLowerCase are computed as JavaScript computes *)
(*    them and not assumed;                                                *)
(*  - the Migration Detector exists twice in the repository, in            *)
(*    src/unnamed/part_000 (exact marker plus exclusion markers) and in    *)
(*    src/src/detectors/migration.ts (loose keyword match): both are       *)
(*    modelled; the orchestrator is modelled with the part_000 detector,   *)
(*    the one whose exports src/src/telegram/bot.ts imports;               *)
(*  - the orchestrator (processFetchQueue, fetchAndProcessTransaction,     *)
(*    the stream callback and the 429 retry timer) is modelled as the      *)
(*    event loop runs it: one action per run-to-completion segment, from   *)
(*    one await (or timer, or stream event) to the next;                   *)
(*  - the stream client (HeliusWebSocketClient, src/unnamed/part_002) is   *)
(*    modelled on its own, driven as main() drives it: connect() once, and *)
(*    disconnect() followed by process.exit(0).  Its two setTimeout delays *)
(*    are both 1000 ms, so its pending timers fire in the order they were  *)
(*    set.                                                                 *)
(***************************************************************************)
EXTENDS Integers, Sequences, FiniteSets, TLC

VARIABLES
    \* the detector on its own
    dTx,                  \* the record handed to the detector
    dFile,                \* which of the two detector files is loaded
    dDone,                \* the detector has run
    dResult,              \* its DetectionResult
    dThrew,               \* the detector has thrown instead of returning
    \* the orchestrator (src/src/types/index.ts, main)
    now,                  \* Date.now()
    pendingFetches,       \* the fetch queue: {signature, timestamp} items
    processedSignatures,  \* the Dedup Ledger, a Set in insertion order
    lastFetchTime,
    isProcessingQueue,
    drains,               \* the suspended calls of processFetchQueue
    retryTimers,          \* the pending setTimeout callbacks of the 429 retry, in the order set
    \* what the environment and the collaborators have seen
    events,               \* stream messages delivered
    n429,                 \* fetches answered with a rate-limit error
    alerts,               \* the calls of sendMigrationAlert, in order
    fetchCount,           \* getParsedTransaction calls per signature
    classifyCount,        \* detector runs per signature
    enqCount,             \* stream enqueues per signature
    dupQueued,            \* signatures enqueued again while queued or in flight
    fetchFailed,          \* signatures a fetch of which returned no record
    outcome,              \* how the last call of fetchAndProcessTransaction ended
    item,                 \* the local `item` of the running processFetchQueue
    \* the environment of the run
    env,                  \* what the stream and the RPC node may do in this run
    \* the stream client (src/unnamed/part_002, HeliusWebSocketClient)
    ws,                   \* this.ws: 0 for null, else the number of the socket
    sockets,              \* readyState of every socket connect() has created
    reconnectInterval,    \* this.reconnectInterval is non-null
    pingInterval,         \* this.pingInterval is non-null
    subscriptionId,
    reconnectAttempts,
    isReconnecting,
    timers,               \* the pending setTimeout callbacks, in the order set
    \* what the provider and the callback have seen
    sentId,               \* id of the subscribe request sent on the newest socket
    closeCode,            \* code of the last 'close' event, 0 before any
    lastOpened,           \* the socket that last emitted 'open', 0 before any
    received,             \* inbound messages delivered
    forwarded,            \* messages handed to onTransactionCallback, in order
    pings,                \* ws.ping() calls
    exited,               \* process.exit(0) has been called
    \* the alert sender (src/src/telegram/bot.ts, TelegramBotHandler)
    userChatIds,          \* config.userChatIds, the strings of USER_CHAT_IDS
    subscribedUsers,      \* the Set of chat ids, in insertion order
    commands,             \* the chat messages handled so far, in order
    sends,                \* the bot.sendMessage calls made for alerts, in order
    call,                 \* the call of sendMigrationAlert in progress
    results               \* how the calls of sendMigrationAlert settled, in order

(***************************************************************************)
(* String literals of the source, character by character.                  *)
(***************************************************************************)
\* 'Instruction: Migrate' (20 characters)
MARKER_MIGRATE ==
    <<"I","n","s","t","r","u","c","t","i","o","n",":"," ","M","i","g","r","a","t","e">>
\* 'Instruction: CollectCreatorFee' (30 characters)
MARKER_COLLECT_CREATOR_FEE ==
    <<"I","n","s","t","r","u","c","t","i","o","n",":"," ","C","o","l","l","e","c","t","C","r",
      "e","a","t","o","r","F","e","e">>
\* 'Instruction: MigrateBondingCurveCreator' (39 characters)
MARKER_MIGRATE_BONDING_CURVE_CREATOR ==
    <<"I","n","s","t","r","u","c","t","i","o","n",":"," ","M","i","g","r","a","t","e","B","o",
      "n","d","i","n","g","C","u","r","v","e","C","r","e","a","t","o","r">>
\* 'Instruction: DistributeCreatorFees' (34 characters)
MARKER_DISTRIBUTE_CREATOR_FEES ==
    <<"I","n","s","t","r","u","c","t","i","o","n",":"," ","D","i","s","t","r","i","b","u","t",
      "e","C","r","e","a","t","o","r","F","e","e","s">>
\* 'migrate' (7 characters)
KW_migrate ==
    <<"m","i","g","r","a","t","e">>
\* 'migration' (9 characters)
KW_migration ==
    <<"m","i","g","r","a","t","i","o","n">>
\* 'burn' (4 characters)
KW_burn ==
    <<"b","u","r","n">>
\* 'lp' (2 characters)
KW_lp ==
    <<"l","p">>
\* 'token' (5 characters)
KW_token ==
    <<"t","o","k","e","n">>
\* 'pump.fun: migration' (19 characters)
KW_pumpfun_migration ==
    <<"p","u","m","p",".","f","u","n",":"," ","m","i","g","r","a","t","i","o","n">>
\* 'create pool' (11 characters)
KW_create_pool ==
    <<"c","r","e","a","t","e"," ","p","o","o","l">>
\* 'createpool' (10 characters)
KW_createpool ==
    <<"c","r","e","a","t","e","p","o","o","l">>
\* 'pump.fun amm' (12 characters)
KW_pumpfun_amm ==
    <<"p","u","m","p",".","f","u","n"," ","a","m","m">>
\* 'pumpswap' (8 characters)
KW_pumpswap ==
    <<"p","u","m","p","s","w","a","p">>
\* 'pump' (4 characters)
KW_pump ==
    <<"p","u","m","p">>
\* 'closeAccount' (12 characters)
KW_closeAccount ==
    <<"c","l","o","s","e","A","c","c","o","u","n","t">>
\* 'transfer' (8 characters)
KW_transfer ==
    <<"t","r","a","n","s","f","e","r">>
\* 'transferChecked' (15 characters)
KW_transferChecked ==
    <<"t","r","a","n","s","f","e","r","C","h","e","c","k","e","d">>
\* '429' (3 characters)
KW_429 ==
    <<"4","2","9">>
\* 'Too Many Requests' (17 characters)
KW_TooManyRequests ==
    <<"T","o","o"," ","M","a","n","y"," ","R","e","q","u","e","s","t","s">>
\* an error message holding '429' only
MSG_429 ==
    <<"S","e","r","v","e","r"," ","r","e","s","p","o","n","d","e","d"," ","w","i","t","h"," ","4","2","9">>
\* an error message holding 'Too Many Requests' only
MSG_TooManyRequests ==
    <<"T","o","o"," ","M","a","n","y"," ","R","e","q","u","e","s","t","s">>
\* an error message holding the words in lower case
MSG_too_many_lower ==
    <<"t","o","o"," ","m","a","n","y"," ","r","e","q","u","e","s","t","s">>
\* an error message of another failure
MSG_FetchFailed ==
    <<"f","e","t","c","h"," ","f","a","i","l","e","d">>
\* 'Program log: Instruction: Migrate' (33 characters)
LOG_Migrate ==
    <<"P","r","o","g","r","a","m"," ","l","o","g",":"," ","I","n","s","t","r","u","c","t","i",
      "o","n",":"," ","M","i","g","r","a","t","e">>
\* 'Program log: Instruction: CollectCreatorFee' (43 characters)
LOG_CollectCreatorFee ==
    <<"P","r","o","g","r","a","m"," ","l","o","g",":"," ","I","n","s","t","r","u","c","t","i",
      "o","n",":"," ","C","o","l","l","e","c","t","C","r","e","a","t","o","r","F","e","e">>
\* 'Program log: Instruction: MigrateBondingCurveCreator' (52 characters)
LOG_MigrateBondingCurveCreator ==
    <<"P","r","o","g","r","a","m"," ","l","o","g",":"," ","I","n","s","t","r","u","c","t","i",
      "o","n",":"," ","M","i","g","r","a","t","e","B","o","n","d","i","n","g","C","u","r","v",
      "e","C","r","e","a","t","o","r">>
\* 'Program log: Instruction: DistributeCreatorFees' (47 characters)
LOG_DistributeCreatorFees ==
    <<"P","r","o","g","r","a","m"," ","l","o","g",":"," ","I","n","s","t","r","u","c","t","i",
      "o","n",":"," ","D","i","s","t","r","i","b","u","t","e","C","r","e","a","t","o","r","F",
      "e","e","s">>
\* 'program log: instruction: migrate' (33 characters)
LOG_migrate_lower ==
    <<"p","r","o","g","r","a","m"," ","l","o","g",":"," ","i","n","s","t","r","u","c","t","i",
      "o","n",":"," ","m","i","g","r","a","t","e">>
\* 'Program log: migration fee paid' (31 characters)
LOG_migration_text ==
    <<"P","r","o","g","r","a","m"," ","l","o","g",":"," ","m","i","g","r","a","t","i","o","n",
      " ","f","e","e"," ","p","a","i","d">>
\* 'Program log: Instruction: Buy' (29 characters)
LOG_Buy ==
    <<"P","r","o","g","r","a","m"," ","l","o","g",":"," ","I","n","s","t","r","u","c","t","i",
      "o","n",":"," ","B","u","y">>
\* 'Program log: Burn LP' (20 characters)
LOG_BurnLp ==
    <<"P","r","o","g","r","a","m"," ","l","o","g",":"," ","B","u","r","n"," ","L","P">>
\* 'Program log: CreatePool' (23 characters)
LOG_CreatePool ==
    <<"P","r","o","g","r","a","m"," ","l","o","g",":"," ","C","r","e","a","t","e","P","o","o",
      "l">>
\* '11111111111111111111111111111111' (32 characters)
SYSTEM_PROGRAM ==
    <<"1","1","1","1","1","1","1","1","1","1","1","1","1","1","1","1","1","1","1","1","1","1",
      "1","1","1","1","1","1","1","1","1","1">>
\* 'TokenkegQfeZyiNwAJbNbGKPFXCWuBvf9Ss623VQ5DA' (43 characters)
TOKEN_PROGRAM ==
    <<"T","o","k","e","n","k","e","g","Q","f","e","Z","y","i","N","w","A","J","b","N","b","G",
      "K","P","F","X","C","W","u","B","v","f","9","S","s","6","2","3","V","Q","5","D","A">>
\* 'TokenzQdBNbLqP5VEhdkAS6EPFLC1PHnBqCXEpPxuEb' (43 characters)
TOKEN_2022_PROGRAM ==
    <<"T","o","k","e","n","z","Q","d","B","N","b","L","q","P","5","V","E","h","d","k","A","S",
      "6","E","P","F","L","C","1","P","H","n","B","q","C","X","E","p","P","x","u","E","b">>
\* 'ATokenGPvbdGVxr1b2hvZbsiqW5xWH25efTNsLJA8knL' (44 characters)
ASSOCIATED_TOKEN_PROGRAM ==
    <<"A","T","o","k","e","n","G","P","v","b","d","G","V","x","r","1","b","2","h","v","Z","b",
      "s","i","q","W","5","x","W","H","2","5","e","f","T","N","s","L","J","A","8","k","n","L">>
\* '6EF8rrecthR5Dkzon8Nwu78hRvfCKubJ14M5uBEwF6P' (43 characters)
DEFAULT_PUMP_FUN_PROGRAM_ID ==
    <<"6","E","F","8","r","r","e","c","t","h","R","5","D","k","z","o","n","8","N","w","u","7",
      "8","h","R","v","f","C","K","u","b","J","1","4","M","5","u","B","E","w","F","6","P">>
\* 'CustomPrg7PnrnRJjz3wXBoRgixCa6xjnB7YaB1pPB26' (44 characters), a program
\* id given by PUMP_FUN_PROGRAM_ID
CUSTOM_PROGRAM_ID ==
    <<"C","u","s","t","o","m","P","r","g","7","P","n","r","n","R","J","j","z","3","w","X","B",
      "o","R","g","i","x","C","a","6","x","j","n","B","7","Y","a","B","1","p","P","B","2","6">>
\* config.pumpFunProgramId: process.env.PUMP_FUN_PROGRAM_ID || the default
pumpFunProgramId == env.pumpFunProgramId
\* '675kPX9MHTjS2zt1qfr1NYHuzeLXfQM9H24wFSUt1Mp8' (44 characters)
pumpFunAmmProgramId ==
    <<"6","7","5","k","P","X","9","M","H","T","j","S","2","z","t","1","q","f","r","1","N","Y",
      "H","u","z","e","L","X","f","Q","M","9","H","2","4","w","F","S","U","t","1","M","p","8">>
\* '7xKXtg2CW87d97TXJSDpbD5jBkheTqA83TZRuJospump' (44 characters)
ADDR_PumpA ==
    <<"7","x","K","X","t","g","2","C","W","8","7","d","9","7","T","X","J","S","D","p","b","D",
      "5","j","B","k","h","e","T","q","A","8","3","T","Z","R","u","J","o","s","p","u","m","p">>
\* '9BB6NFEcjBCtnNLFko2FqVQBq8HHM13kCyYcdQbgpump' (44 characters)
ADDR_PumpB ==
    <<"9","B","B","6","N","F","E","c","j","B","C","t","n","N","L","F","k","o","2","F","q","V",
      "Q","B","q","8","H","H","M","1","3","k","C","y","Y","c","d","Q","b","g","p","u","m","p">>
\* '4k3Dyjzvzp8eMZWUXbBCjEvwSkkk59S5iCNLY3Qpump' (43 characters)
ADDR_ShortPump ==
    <<"4","k","3","D","y","j","z","v","z","p","8","e","M","Z","W","U","X","b","B","C","j","E",
      "v","w","S","k","k","k","5","9","S","5","i","C","N","L","Y","3","Q","p","u","m","p">>
\* 'So11111111111111111111111111111111111111112' (43 characters)
ADDR_Wallet ==
    <<"S","o","1","1","1","1","1","1","1","1","1","1","1","1","1","1","1","1","1","1","1","1",
      "1","1","1","1","1","1","1","1","1","1","1","1","1","1","1","1","1","1","1","1","2">>
\* 'DezXAZ8z7PnrnRJjz3wXBoRgixCa6xjnB7YaB1pPB263' (44 characters)
ADDR_Wallet44 ==
    <<"D","e","z","X","A","Z","8","z","7","P","n","r","n","R","J","j","z","3","w","X","B","o",
      "R","g","i","x","C","a","6","x","j","n","B","7","Y","a","B","1","p","P","B","2","6","3">>

(***************************************************************************)
(* Program constants.                                                      *)
(***************************************************************************)
\* account.length === 44
AddressLength == 44

\* const minFetchInterval = 100 (milliseconds)
minFetchInterval == 100

\* if (now - item.timestamp > 30000)
staleLimit == 30000

\* setTimeout(..., 2000) of the 429 retry
retryDelay == 2000

(***************************************************************************)
(* Bounds of the model.                                                    *)
(***************************************************************************)
\* if (processedSignatures.size > 1000): the cap of the Dedup Ledger.  The
\* source keeps 1000 signatures; the model keeps LedgerCap of them, and every
\* formula is stated in terms of LedgerCap.
LedgerCap == 1

\* stream messages delivered to the callback
MaxEvents == 2

\* stream messages delivered in a burst
BurstEvents == 3

\* Date.now() when main() starts
StartTime == 100000

\* fetches answered with a rate-limit error
Max429 == 1

\* stream messages, and fetches answered with a rate-limit error, in the runs
\* where one signature is rate limited at every fetch
RetryEvents == 3
RetryMax429 == 3

\* log lines of a record handed to the detector on its own
MaxLogs == 2

\* getParsedTransaction answers at once, within the rate-limit interval, or
\* after more than the staleness threshold (milliseconds)
\* private maxReconnectAttempts: number = 10
maxReconnectAttempts == 10

\* sockets connect() may create in a run
MaxSockets == 12

\* inbound stream messages in a run of the client
MaxInbound == 2

\* keep-alive pings in a run of the client
MaxPings == 1

FetchLatencies == {0, minFetchInterval \div 2, staleLimit + 1}

(***************************************************************************)
(* JavaScript values and string primitives.                                *)
(***************************************************************************)
\* undefined / null: a one-element sequence no string can equal (every
\* element of a string is a single character).
Undefined == <<"undefined">>

\* a web3.js PublicKey object wrapping the base58 text b58
PublicKey(b58) == <<"PublicKey">> \o b58

IsPublicKey(v) == Len(v) > 0 /\ v[1] = "PublicKey"

\* typeof v === 'string'
IsString(v) == v # Undefined /\ ~IsPublicKey(v)

\* PublicKey.prototype.toString / String.prototype.toString
KeyToString(v) == IF IsPublicKey(v) THEN Tail(v) ELSE v

\* JavaScript truthiness of a string-or-undefined value
Truthy(v) == v # Undefined /\ v # <<>>

\* String.prototype.includes
Includes(s, sub) ==
    \E i \in 1..(Len(s) - Len(sub) + 1) : SubSeq(s, i, i + Len(sub) - 1) = sub

\* String.prototype.endsWith
EndsWith(s, suffix) ==
    /\ Len(s) >= Len(suffix)
    /\ SubSeq(s, Len(s) - Len(suffix) + 1, Len(s)) = suffix

UpperCase == <<"A","B","C","D","E","F","G","H","I","J","K","L","M",
               "N","O","P","Q","R","S","T","U","V","W","X","Y","Z">>
LowerCase == <<"a","b","c","d","e","f","g","h","i","j","k","l","m",
               "n","o","p","q","r","s","t","u","v","w","x","y","z">>

LowerChar(c) ==
    IF \E i \in 1..26 : UpperCase[i] = c
    THEN LowerCase[CHOOSE i \in 1..26 : UpperCase[i] = c]
    ELSE c

\* String.prototype.toLowerCase
ToLowerCase(s) == [i \in 1..Len(s) |-> LowerChar(s[i])]

\* Array.prototype.join(' ')
RECURSIVE JoinSpace(_)
JoinSpace(lines) ==
    IF Len(lines) = 0 THEN <<>>
    ELSE IF Len(lines) = 1 THEN lines[1]
    ELSE lines[1] \o <<" ">> \o JoinSpace(Tail(lines))

\* Array.prototype.some over a sequence
Some(seq, P(_)) == \E i \in 1..Len(seq) : P(seq[i])

(***************************************************************************)
(* Transaction records (ParsedTransactionWithMeta).                        *)
(*   tx.null                  the record itself is null                    *)
(*   tx.meta.present          meta is not null                             *)
(*   tx.meta.err              meta.err is set (truthy)                     *)
(*   tx.meta.hasLogs          meta.logMessages is an array                 *)
(*   tx.accountKeys           transaction.message.accountKeys              *)
(*   tx.instructions          transaction.message.instructions             *)
(* An instruction carries programId, program, data, the parsed payload     *)
(* (parsed, type, mint, tokenMint, account) and the accounts array         *)
(* (hasAccounts, accounts: the index each entry parses to, -1 for NaN).    *)
(***************************************************************************)
NotMigration == [isMigration |-> FALSE, tokenMint |-> Undefined, signature |-> Undefined]

\* Index of the first element of seq satisfying P, 0 when there is none
FirstIndex(seq, P(_)) ==
    IF \E i \in 1..Len(seq) : P(seq[i])
    THEN CHOOSE i \in 1..Len(seq) : P(seq[i]) /\ \A j \in 1..(i - 1) : ~P(seq[j])
    ELSE 0

\* const programId = ix.programId || ix.program
ProgramIdOf(ix) == IF Truthy(ix.programId) THEN ix.programId ELSE ix.program

\* programId === pumpFunProgramId && (ix.data?.includes('migrate') || ix.parsed?.type === 'migrate')
IsMigrateIx(ix) ==
    /\ ProgramIdOf(ix) = pumpFunProgramId
    /\ \/ (IsString(ix.data) /\ Includes(ix.data, KW_migrate))
       \/ (ix.parsed /\ ix.type = KW_migrate)

\* variant: the log lines are not looked at, only the instructions
hasMigrateInstruction_NoLogCheck(instructions, logMessages) ==
    Some(instructions, IsMigrateIx)

\* private hasMigrateInstruction(instructions, logMessages)
hasMigrateInstruction(instructions, logMessages) ==
    LET hasMigrateLog == Some(logMessages, LAMBDA log : Includes(log, MARKER_MIGRATE))
    IN  IF hasMigrateLog THEN TRUE ELSE Some(instructions, IsMigrateIx)

\* const hasCollectFee = logMessages.some(...)
hasCollectFee(logMessages) ==
    Some(logMessages, LAMBDA log :
        \/ Includes(log, MARKER_COLLECT_CREATOR_FEE)
        \/ Includes(log, MARKER_MIGRATE_BONDING_CURVE_CREATOR)
        \/ Includes(log, MARKER_DISTRIBUTE_CREATOR_FEES))

\* typeof key === 'string' ? key : key.pubkey?.toString() || key.toString()
AccountKeysArray(accountKeys) == [i \in 1..Len(accountKeys) |-> KeyToString(accountKeys[i])]

\* typeof account === 'string' && account.endsWith('pump') && account.length === 44
IsPumpAddress(account) ==
    IsString(account) /\ EndsWith(account, KW_pump) /\ Len(account) = AddressLength

IsKnownProgram(account) ==
    \/ account = SYSTEM_PROGRAM
    \/ account = TOKEN_PROGRAM
    \/ account = TOKEN_2022_PROGRAM
    \/ account = ASSOCIATED_TOKEN_PROGRAM
    \/ account = pumpFunProgramId
    \/ account = pumpFunAmmProgramId

\* The mint one instruction yields in the loop of extractTokenMint, or Undefined
IxTokenMint(ix, keys) ==
    LET isTransfer == ix.parsed /\ (ix.type = KW_transfer \/ ix.type = KW_transferChecked)
        mint       == IF Truthy(ix.mint) THEN ix.mint ELSE ix.tokenMint
        valid      == [k \in 1..Len(ix.accounts) |->
                          IF ix.accounts[k] >= 0 /\ ix.accounts[k] < Len(keys)
                          THEN keys[ix.accounts[k] + 1] ELSE Undefined]
        hit        == FirstIndex(valid, IsPumpAddress)
    IN  IF isTransfer /\ ix.parsed /\ Truthy(mint) THEN mint
        ELSE IF ix.parsed /\ Truthy(ix.mint) THEN ix.mint
        ELSE IF ix.hasAccounts /\ hit # 0 THEN valid[hit]
        ELSE Undefined

\* variant: the last pump address of the account list instead of the first
extractTokenMint_LastPump(tx, instructions) ==
    LET keys  == AccountKeysArray(tx.accountKeys)
        pumps == {i \in 1..Len(keys) : IsPumpAddress(keys[i])}
    IN  IF pumps # {} THEN keys[CHOOSE i \in pumps : \A j \in pumps : j <= i]
        ELSE Undefined

\* variant: the instructions are searched before the account list
extractTokenMint_InstructionsFirst(tx, instructions) ==
    LET keys     == AccountKeysArray(tx.accountKeys)
        pump     == FirstIndex(keys, IsPumpAddress)
        perIx    == [i \in 1..Len(instructions) |-> IxTokenMint(instructions[i], keys)]
        ixHit    == FirstIndex(perIx, LAMBDA m : m # Undefined)
    IN  IF ixHit # 0 THEN perIx[ixHit]
        ELSE IF pump # 0 THEN keys[pump]
        ELSE Undefined

\* private extractTokenMint(tx, instructions)
extractTokenMint(tx, instructions) ==
    LET keys     == AccountKeysArray(tx.accountKeys)
        pump     == FirstIndex(keys, IsPumpAddress)
        perIx    == [i \in 1..Len(instructions) |-> IxTokenMint(instructions[i], keys)]
        ixHit    == FirstIndex(perIx, LAMBDA m : m # Undefined)
        fallback == FirstIndex(keys, LAMBDA a :
                        IsString(a) /\ Len(a) = AddressLength /\ ~IsKnownProgram(a))
    IN  IF pump # 0 THEN keys[pump]
        ELSE IF ixHit # 0 THEN perIx[ixHit]
        ELSE IF fallback # 0 THEN keys[fallback]
        ELSE Undefined

\* a null entry of a list of log lines or of account keys
NullEntry == <<"null">>

\* Array.prototype.some with a callback that reads a property of its argument:
\* it throws when it comes to a null entry before an entry the callback accepts
SomeRaises(seq, P(_)) ==
    \E i \in 1..Len(seq) : seq[i] = NullEntry /\ \A j \in 1..(i - 1) : ~P(seq[j])

\* the same for a list of instructions
SomeIxRaises(seq, P(_)) ==
    \E i \in 1..Len(seq) : seq[i].isNull /\ \A j \in 1..(i - 1) : ~seq[j].isNull /\ ~P(seq[j])

\* extractTokenMint throws a TypeError: on a null account key (key.pubkey), or,
\* when no key is a pump address, on a null instruction that the loop reaches
\* before an instruction that yields a mint
extractTokenMintRaises(tx, instructions) ==
    LET accountKeys == IF tx.hasAccountKeys THEN tx.accountKeys ELSE <<>>
        keys        == AccountKeysArray(accountKeys)
    IN  \/ \E i \in 1..Len(accountKeys) : accountKeys[i] = NullEntry
        \/ /\ FirstIndex(keys, IsPumpAddress) = 0
           /\ SomeIxRaises(instructions, LAMBDA ix : IxTokenMint(ix, keys) # Undefined)

\* detectMigrationFromTransaction throws a TypeError instead of returning
detectorRaises(tx) ==
    IF tx.null \/ ~tx.meta.present \/ tx.meta.err
    THEN FALSE
    ELSE IF ~tx.hasTransaction \/ ~tx.hasMessage
    THEN TRUE
    ELSE LET instructions  == IF tx.hasInstructions THEN tx.instructions ELSE <<>>
             logMessages   == IF tx.meta.hasLogs THEN tx.meta.logMessages ELSE <<>>
             isMigrateLog(log) == Includes(log, MARKER_MIGRATE)
             isFeeLog(log) ==
                 \/ Includes(log, MARKER_COLLECT_CREATOR_FEE)
                 \/ Includes(log, MARKER_MIGRATE_BONDING_CURVE_CREATOR)
                 \/ Includes(log, MARKER_DISTRIBUTE_CREATOR_FEES)
             hasMigrateLog == Some(logMessages, isMigrateLog)
         IN  IF SomeRaises(logMessages, isMigrateLog) THEN TRUE
             ELSE IF ~hasMigrateLog /\ SomeIxRaises(instructions, IsMigrateIx) THEN TRUE
             ELSE IF SomeRaises(logMessages, isFeeLog) THEN TRUE
             ELSE IF ~(hasMigrateLog \/ Some(instructions, IsMigrateIx)) \/ Some(logMessages, isFeeLog)
             THEN FALSE
             ELSE extractTokenMintRaises(tx, instructions)

\* variant: tx.meta.err is not tested
detectMigrationFromTransaction_IgnoreErr(tx, signature) ==
    IF tx.null \/ ~tx.meta.present
    THEN NotMigration
    ELSE LET logMessages == IF tx.meta.hasLogs THEN tx.meta.logMessages ELSE <<>>
         IN  IF hasMigrateInstruction(tx.instructions, logMessages) /\ ~hasCollectFee(logMessages)
             THEN [isMigration |-> TRUE,
                   tokenMint   |-> extractTokenMint(tx, tx.instructions),
                   signature   |-> signature]
             ELSE NotMigration

\* detectMigrationFromTransaction(tx, signature)
detectMigrationFromTransaction(tx, signature) ==
    IF tx.null \/ ~tx.meta.present \/ tx.meta.err
    THEN NotMigration
    ELSE LET instructions          == tx.instructions
             logMessages           == IF tx.meta.hasLogs THEN tx.meta.logMessages ELSE <<>>
             hasMigrateInstr       == hasMigrateInstruction(instructions, logMessages)
             hasFee                == hasCollectFee(logMessages)
             isMigration           == hasMigrateInstr /\ ~hasFee
         IN  IF ~isMigration
             THEN NotMigration
             ELSE [isMigration |-> TRUE,
                   tokenMint   |-> extractTokenMint(tx, instructions),
                   signature   |-> signature]

(***************************************************************************)
(* The detector of src/src/detectors/migration.ts (loose keyword match,    *)
(* no exclusion markers, mint only from decoded instruction payloads).     *)
(***************************************************************************)
Legacy_hasMigrateInstruction(instructions, logMessages) ==
    LET migrationLogs == {i \in 1..Len(logMessages) :
                            \/ Includes(ToLowerCase(logMessages[i]), KW_migrate)
                            \/ Includes(ToLowerCase(logMessages[i]), KW_migration)}
    IN  IF Cardinality(migrationLogs) > 0 THEN TRUE ELSE Some(instructions, IsMigrateIx)

Legacy_hasPoolCreation(instructions, logMessages) ==
    LET poolCreationLogs == {i \in 1..Len(logMessages) :
                               \/ Includes(ToLowerCase(logMessages[i]), KW_create_pool)
                               \/ Includes(ToLowerCase(logMessages[i]), KW_createpool)
                               \/ Includes(ToLowerCase(logMessages[i]), KW_pumpfun_amm)
                               \/ Includes(ToLowerCase(logMessages[i]), KW_pumpswap)}
    IN  IF Cardinality(poolCreationLogs) > 0 THEN TRUE
        ELSE Some(instructions, LAMBDA ix : ProgramIdOf(ix) = pumpFunAmmProgramId)

Legacy_hasLpTokenBurn(logMessages) ==
    Some(logMessages, LAMBDA log :
        LET lowerLog == ToLowerCase(log)
        IN  \/ (Includes(lowerLog, KW_burn) /\ Includes(lowerLog, KW_lp))
            \/ (Includes(lowerLog, KW_burn) /\ Includes(lowerLog, KW_token)))

Legacy_hasMigrationTransfer(logMessages) ==
    Some(logMessages, LAMBDA log :
        LET lowerLog == ToLowerCase(log)
        IN  Includes(lowerLog, KW_pumpfun_migration) \/ Includes(lowerLog, KW_migration))

Legacy_IxTokenMint(ix) ==
    LET isTransfer == ix.parsed /\ (ix.type = KW_transfer \/ ix.type = KW_transferChecked)
        mint       == IF Truthy(ix.mint) THEN ix.mint ELSE ix.tokenMint
    IN  IF isTransfer /\ Truthy(mint) THEN mint
        ELSE IF ix.parsed /\ Truthy(ix.mint) THEN ix.mint
        ELSE Undefined

Legacy_extractTokenMint(tx, instructions) ==
    LET perIx == [i \in 1..Len(instructions) |-> Legacy_IxTokenMint(instructions[i])]
        ixHit == FirstIndex(perIx, LAMBDA m : m # Undefined)
    IN  IF ixHit # 0 THEN perIx[ixHit] ELSE Undefined

Legacy_detectMigrationFromTransaction(tx, signature) ==
    IF tx.null \/ ~tx.meta.present \/ tx.meta.err
    THEN NotMigration
    ELSE LET instructions    == tx.instructions
             logMessages     == IF tx.meta.hasLogs THEN tx.meta.logMessages ELSE <<>>
             isMigration     ==
                 \/ Legacy_hasMigrateInstruction(instructions, logMessages)
                 \/ /\ Legacy_hasPoolCreation(instructions, logMessages)
                    /\ Legacy_hasLpTokenBurn(logMessages)
                    /\ Legacy_hasMigrationTransfer(logMessages)
         IN  IF ~isMigration
             THEN NotMigration
             ELSE [isMigration |-> TRUE,
                   tokenMint   |-> Legacy_extractTokenMint(tx, instructions),
                   signature   |-> signature]

(***************************************************************************)
(* TransactionParser (src/unnamed/part_002, second file).                  *)
(***************************************************************************)
Base58Alphabet ==
    {"1","2","3","4","5","6","7","8","9",
     "A","B","C","D","E","F","G","H","J","K","L","M","N","P","Q","R","S","T","U","V","W","X","Y","Z",
     "a","b","c","d","e","f","g","h","i","j","k","m","n","o","p","q","r","s","t","u","v","w","x","y","z"}

\* new PublicKey(account) does not throw: the text is base58 and decodes to 32
\* bytes (a 32-byte value takes 32 to 44 base58 characters).
IsValidPublicKey(account) ==
    /\ IsString(account)
    /\ Len(account) >= 32 /\ Len(account) <= AddressLength
    /\ \A i \in 1..Len(account) : account[i] \in Base58Alphabet

ParserKnownPrograms ==
    {SYSTEM_PROGRAM, TOKEN_PROGRAM, TOKEN_2022_PROGRAM, ASSOCIATED_TOKEN_PROGRAM}

Parser_IxTokenMint(ix, keys) ==
    LET mint  == IF Truthy(ix.mint) THEN ix.mint
                 ELSE IF Truthy(ix.tokenMint) THEN ix.tokenMint
                 ELSE ix.account
        valid == [k \in 1..Len(ix.accounts) |->
                     IF ix.accounts[k] >= 0 /\ ix.accounts[k] < Len(keys)
                     THEN keys[ix.accounts[k] + 1] ELSE Undefined]
        hit   == FirstIndex(valid, LAMBDA a : Truthy(a) /\ IsPumpAddress(a) /\ IsValidPublicKey(a))
    IN  IF ix.parsed /\ Truthy(mint) THEN mint
        ELSE IF ix.hasAccounts /\ hit # 0 THEN valid[hit]
        ELSE Undefined

extractTokenMintFromTransaction(tx) ==
    LET keys     == AccountKeysArray(tx.accountKeys)
        pump     == FirstIndex(keys, LAMBDA a : IsPumpAddress(a) /\ IsValidPublicKey(a))
        perIx    == [i \in 1..Len(tx.instructions) |-> Parser_IxTokenMint(tx.instructions[i], keys)]
        ixHit    == FirstIndex(perIx, LAMBDA m : m # Undefined)
        fallback == FirstIndex(keys, LAMBDA a :
                        /\ IsString(a) /\ Len(a) = AddressLength
                        /\ a \notin ParserKnownPrograms
                        /\ IsValidPublicKey(a))
    IN  IF pump # 0 THEN keys[pump]
        ELSE IF ixHit # 0 THEN perIx[ixHit]
        ELSE IF fallback # 0 THEN keys[fallback]
        ELSE Undefined

NoMigration == [isNull |-> TRUE, signature |-> Undefined, tokenMint |-> Undefined]

\* The MigrationTransaction built for a detected migration, NoMigration for null.
\* timestamp, liquidityPool, solAmount and transactionUrl do not steer the
\* orchestrator and are left out.
parseMigrationTransactionFromParsed(tx, tokenMint, signature) ==
    IF tx.null \/ ~tx.meta.present
    THEN NoMigration
    ELSE LET mint == IF Truthy(tokenMint) THEN tokenMint ELSE extractTokenMintFromTransaction(tx)
         IN  IF ~Truthy(mint)
             THEN NoMigration
             ELSE [isNull |-> FALSE, signature |-> signature, tokenMint |-> mint]

(***************************************************************************)
(* The records and messages the model is run on.                           *)
(***************************************************************************)
BaseIx ==
    [programId |-> Undefined, program |-> Undefined, data |-> Undefined,
     parsed |-> FALSE, type |-> Undefined, mint |-> Undefined, tokenMint |-> Undefined,
     account |-> Undefined, hasAccounts |-> FALSE, accounts |-> <<>>, isNull |-> FALSE]

\* an instruction of the watched program whose data text contains 'migrate'
IX_MigrateData == [BaseIx EXCEPT !.programId = pumpFunProgramId, !.data = KW_migrate]

\* a decoded 'migrate' instruction as web3.js delivers it: programId is a PublicKey
IX_MigrateParsed ==
    [BaseIx EXCEPT !.programId = PublicKey(pumpFunProgramId), !.parsed = TRUE, !.type = KW_migrate]

\* a decoded token transfer naming a mint
IX_Transfer ==
    [BaseIx EXCEPT !.programId = PublicKey(TOKEN_PROGRAM), !.parsed = TRUE,
                   !.type = KW_transfer, !.mint = ADDR_Wallet44]

\* a partially decoded instruction referring to the account at index 1
IX_Accounts ==
    [BaseIx EXCEPT !.programId = PublicKey(pumpFunProgramId), !.hasAccounts = TRUE,
                   !.accounts = <<1>>]

\* a decoded closeAccount instruction: its payload names an account, no mint
IX_CloseAccount ==
    [BaseIx EXCEPT !.programId = PublicKey(TOKEN_PROGRAM), !.parsed = TRUE,
                   !.type = KW_closeAccount, !.account = ADDR_PumpB]

InstructionLists ==
    {<<>>, <<IX_MigrateData>>, <<IX_MigrateParsed>>, <<IX_Transfer>>, <<IX_Accounts>>,
     <<IX_CloseAccount>>}

AccountKeyLists ==
    {<<>>,
     <<PublicKey(ADDR_Wallet44), PublicKey(ADDR_PumpA)>>,
     <<PublicKey(ADDR_PumpB), PublicKey(ADDR_PumpA)>>,
     <<PublicKey(SYSTEM_PROGRAM), PublicKey(ADDR_ShortPump)>>,
     <<PublicKey(pumpFunAmmProgramId), PublicKey(ADDR_Wallet44)>>}

LogLines ==
    {LOG_Migrate, LOG_CollectCreatorFee, LOG_MigrateBondingCurveCreator,
     LOG_DistributeCreatorFees, LOG_migrate_lower, LOG_migration_text, LOG_Buy,
     LOG_BurnLp, LOG_CreatePool}

\* every sequence of at most n log lines
RECURSIVE LogLists(_)
LogLists(n) ==
    IF n = 0 THEN {<<>>}
    ELSE LET shorter == LogLists(n - 1)
         IN  shorter \cup {Append(l, x) : l \in {s \in shorter : Len(s) = n - 1}, x \in LogLines}

MkTx(logs, keys, ixs) ==
    [null |-> FALSE,
     meta |-> [present |-> TRUE, err |-> FALSE, hasLogs |-> TRUE, logMessages |-> logs],
     hasTransaction |-> TRUE, hasMessage |-> TRUE, hasInstructions |-> TRUE,
     hasAccountKeys |-> TRUE, accountKeys |-> keys, instructions |-> ixs]

\* The records handed to the detector on its own: null, without meta, failed,
\* without logMessages, and error-free with every list of log lines.
DetectorInputs ==
    {[MkTx(logs, keys, ixs) EXCEPT !.null = (shape = "null"),
                                   !.meta.present = (shape # "noMeta"),
                                   !.meta.err = (shape = "err"),
                                   !.meta.hasLogs = (shape # "noLogs")] :
        shape \in {"null", "noMeta", "err", "noLogs", "ok"},
        logs \in LogLists(MaxLogs), keys \in AccountKeyLists, ixs \in InstructionLists}

\* a null entry in a list of instructions
IX_Null == [BaseIx EXCEPT !.isNull = TRUE]

\* Records with missing or malformed fields: no transaction, no message, no
\* instructions, no account keys, and null entries in the three lists.
MalformedLogs ==
    {<<>>, <<LOG_Migrate>>, <<LOG_Buy>>, <<NullEntry>>, <<LOG_Migrate, NullEntry>>,
     <<NullEntry, LOG_Migrate>>, <<LOG_Migrate, LOG_CollectCreatorFee, NullEntry>>}

MalformedKeys ==
    {<<>>, <<NullEntry>>, <<PublicKey(ADDR_PumpA), NullEntry>>, <<PublicKey(ADDR_Wallet44)>>}

MalformedInstructions ==
    {<<>>, <<IX_Null>>, <<IX_MigrateData>>, <<IX_MigrateData, IX_Null>>, <<IX_Transfer, IX_Null>>}

MalformedInputs ==
    {[MkTx(logs, IF shape = "noAccountKeys" THEN <<>> ELSE keys,
                 IF shape = "noInstructions" THEN <<>> ELSE ixs)
        EXCEPT !.hasTransaction = (shape # "noTransaction"),
               !.hasMessage = (shape \notin {"noTransaction", "noMessage"}),
               !.hasInstructions = (shape \notin {"noTransaction", "noMessage", "noInstructions"}),
               !.hasAccountKeys = (shape \notin {"noTransaction", "noMessage", "noAccountKeys"})] :
        shape \in {"noTransaction", "noMessage", "noInstructions", "noAccountKeys", "ok"},
        logs \in MalformedLogs, keys \in MalformedKeys, ixs \in MalformedInstructions}

DetectorFiles == {"part_000", "detectors/migration.ts"}

\* The chain: the record getParsedTransaction returns for each signature.
\*   M1, M2      migrations whose account list holds a pump address
\*   X1          a migration log next to a CollectCreatorFee log
\*   N1          a migration from which no mint can be taken
\*   B1          a purchase, no migration
Signatures == {"M1", "M2", "X1", "N1", "B1"}

TxOf(signature) ==
    CASE signature = "M1" ->
            MkTx(<<LOG_Migrate>>, <<PublicKey(ADDR_Wallet44), PublicKey(ADDR_PumpA)>>, <<>>)
      [] signature = "M2" ->
            MkTx(<<LOG_Buy, LOG_Migrate>>, <<PublicKey(ADDR_PumpB), PublicKey(ADDR_PumpA)>>,
                 <<IX_Transfer>>)
      [] signature = "X1" ->
            MkTx(<<LOG_Migrate, LOG_CollectCreatorFee>>,
                 <<PublicKey(ADDR_Wallet44), PublicKey(ADDR_PumpA)>>, <<>>)
      [] signature = "N1" ->
            MkTx(<<LOG_Migrate>>, <<PublicKey(SYSTEM_PROGRAM), PublicKey(ADDR_ShortPump)>>, <<>>)
      [] OTHER ->
            MkTx(<<LOG_Buy>>, <<PublicKey(ADDR_Wallet44), PublicKey(ADDR_PumpA)>>, <<>>)

\* The stream messages: a logs notification carrying the signature and the
\* record's log lines, a notification carrying the signature alone, and a message
\* from which no signature can be taken.
Messages ==
    {[hasSignature |-> TRUE, signature |-> s, logs |-> TxOf(s).meta.logMessages] : s \in Signatures}
    \cup {[hasSignature |-> TRUE, signature |-> "B1", logs |-> <<>>]}
    \cup {[hasSignature |-> FALSE, signature |-> "", logs |-> <<>>]}
    \cup {[hasSignature |-> FALSE, signature |-> "", logs |-> <<LOG_Migrate>>]}

\* The environment of a run: how many stream messages arrive, which ones, how
\* long getParsedTransaction takes.  MixedEnv is every message and latency over
\* a short run; BurstEnv is a longer burst of two signatures with a fetch that
\* takes almost the staleness threshold.  max429 bounds the fetches answered
\* with a rate-limit error; the fetches of the signatures in rateLimited get
\* no other answer.
MixedEnv ==
    [maxEvents |-> MaxEvents, messages |-> Messages, latencies |-> FetchLatencies,
     max429 |-> Max429, rateLimited |-> {},
     pumpFunProgramId |-> DEFAULT_PUMP_FUN_PROGRAM_ID]

BurstLatencies == {0, staleLimit - minFetchInterval \div 2}

BurstMessages == {message \in Messages : message.signature \in {"M1", "X1"}}

BurstEnv ==
    [maxEvents |-> BurstEvents, messages |-> BurstMessages, latencies |-> BurstLatencies,
     max429 |-> Max429, rateLimited |-> {},
     pumpFunProgramId |-> DEFAULT_PUMP_FUN_PROGRAM_ID]

RetryMessages == {message \in Messages : message.signature \in {"M1", "M2"}}

\* the run in which the RPC node answers every fetch of M1 with a rate-limit
\* error, while notifications of M1 and M2 arrive and fetches are slow
RetryEnv ==
    [maxEvents |-> RetryEvents, messages |-> RetryMessages, latencies |-> BurstLatencies,
     max429 |-> RetryMax429, rateLimited |-> {"M1"},
     pumpFunProgramId |-> DEFAULT_PUMP_FUN_PROGRAM_ID]

\* the run with PUMP_FUN_PROGRAM_ID set to another program
CustomEnv == [MixedEnv EXCEPT !.pumpFunProgramId = CUSTOM_PROGRAM_ID]

\* account keys of records of the watched program: the program itself, the
\* other known programs, a wallet with a 43-character address, a pump mint
ConfiguredKeys ==
    {PublicKey(pumpFunProgramId), PublicKey(pumpFunAmmProgramId), PublicKey(TOKEN_PROGRAM),
     PublicKey(ASSOCIATED_TOKEN_PROGRAM), PublicKey(ADDR_Wallet), PublicKey(ADDR_PumpA)}

ConfiguredKeyLists ==
    {<<>>} \cup {<<a>> : a \in ConfiguredKeys} \cup {<<a, b>> : a, b \in ConfiguredKeys}

ConfiguredInputs ==
    {MkTx(logs, keys, ixs) :
        logs \in {<<LOG_Migrate>>, <<LOG_Buy>>, <<LOG_Migrate, LOG_CollectCreatorFee>>},
        keys \in ConfiguredKeyLists, ixs \in InstructionLists}

detVars  == <<dTx, dFile, dDone, dResult, dThrew>>
\* the variables no action of the orchestrator writes
clientVars == <<ws, sockets, reconnectInterval, pingInterval, subscriptionId,
                reconnectAttempts, isReconnecting, timers, sentId, closeCode,
                lastOpened, received, forwarded, pings, exited>>
botVars  == <<userChatIds, subscribedUsers, commands, sends, call, results>>
outerVars == <<env, botVars, clientVars>>
queueVars == <<now, pendingFetches, processedSignatures, lastFetchTime, isProcessingQueue,
               drains, retryTimers, events, n429, alerts, fetchCount,
               classifyCount, enqCount, dupQueued, fetchFailed, outcome, item, env>>
pipeVars == <<queueVars, botVars>>
vars     == <<detVars, pipeVars, clientVars>>

(***************************************************************************)
(* The detector on its own.                                                *)
(***************************************************************************)
InitDetector ==
    /\ dTx \in DetectorInputs
    /\ dFile \in DetectorFiles
    /\ dDone = FALSE
    /\ dResult = NotMigration
    /\ dThrew = FALSE

IdleDetector ==
    /\ dTx = MkTx(<<>>, <<>>, <<>>)
    /\ dFile = "part_000"
    /\ dDone = FALSE
    /\ dResult = NotMigration
    /\ dThrew = FALSE

Detect ==
    /\ ~dDone
    /\ dDone' = TRUE
    /\ dThrew' = (dFile = "part_000" /\ detectorRaises(dTx))
    /\ dResult' = IF dThrew' THEN NotMigration
                  ELSE IF dFile = "part_000"
                  THEN detectMigrationFromTransaction(dTx, "SIG1")
                  ELSE Legacy_detectMigrationFromTransaction(dTx, "SIG1")
    /\ UNCHANGED <<dTx, dFile, pipeVars, clientVars>>

(***************************************************************************)
(* The orchestrator.  The mutable bindings of main() are gathered in one   *)
(* record, so that a run-to-completion segment is a function from store to *)
(* store.                                                                  *)
(***************************************************************************)
Store ==
    [pendingFetches |-> pendingFetches, processedSignatures |-> processedSignatures,
     lastFetchTime |-> lastFetchTime, isProcessingQueue |-> isProcessingQueue,
     drains |-> drains, retryTimers |-> retryTimers, alerts |-> alerts,
     fetchCount |-> fetchCount, classifyCount |-> classifyCount,
     outcome |-> outcome, item |-> item]

Commit(S) ==
    /\ pendingFetches' = S.pendingFetches
    /\ processedSignatures' = S.processedSignatures
    /\ lastFetchTime' = S.lastFetchTime
    /\ isProcessingQueue' = S.isProcessingQueue
    /\ drains' = S.drains
    /\ retryTimers' = S.retryTimers
    /\ alerts' = S.alerts
    /\ fetchCount' = S.fetchCount
    /\ classifyCount' = S.classifyCount
    /\ outcome' = S.outcome
    /\ item' = S.item

InSeq(seq, x) == \E i \in 1..Len(seq) : seq[i] = x

RemoveAt(seq, i) == SubSeq(seq, 1, i - 1) \o SubSeq(seq, i + 1, Len(seq))

\* Set.prototype.add on a Set kept in insertion order
SetAdd(set, x) == IF InSeq(set, x) THEN set ELSE Append(set, x)

\* a suspended call of processFetchQueue: where it waits and its locals
Drain(pc, signature, loopNow, wakeAt, mint, basic) ==
    [pc |-> pc, signature |-> signature, loopNow |-> loopNow, wakeAt |-> wakeAt,
     mint |-> mint, basic |-> basic]

\* no item: processFetchQueue is not running, or has not dequeued yet
NoItem == [signature |-> "", timestamp |-> 0]

\* how a call of fetchAndProcessTransaction ended
Ended(signature, kind) == [signature |-> signature, kind |-> kind]

\* function hasMigrationIndicators(logs)
hasMigrationIndicators(logs) ==
    LET logText == ToLowerCase(JoinSpace(logs))
    IN  \/ Includes(logText, KW_migrate)
        \/ Includes(logText, KW_migration)
        \/ (Includes(logText, KW_burn) /\ Includes(logText, KW_lp))
        \/ Includes(logText, KW_pumpfun_migration)

\* variant: no wait between fetches
SleepTime_None(timeSinceLastFetch) == 0

\* setTimeout(resolve, minFetchInterval - timeSinceLastFetch)
SleepTime(timeSinceLastFetch) == minFetchInterval - timeSinceLastFetch

\* variant: the newest entries are removed instead of the oldest
CleanUp_Newest(set) ==
    IF Len(set) > LedgerCap THEN SubSeq(set, 1, LedgerCap) ELSE set

\* the ledger clean-up: Array.from, slice(0, length - 1000), forEach delete
CleanUp(set) ==
    IF Len(set) > LedgerCap
    THEN LET toRemove == SubSeq(set, 1, Len(set) - LedgerCap)
         IN  SelectSeq(set, LAMBDA sig : ~InSeq(toRemove, sig))
    ELSE set

RECURSIVE DrainLoop(_, _)
RECURSIVE AfterWait(_, _, _)
RECURSIVE fetchAndProcessTransaction(_, _, _)

\* variant: the loop ends without clearing isProcessingQueue
DrainLoop_FlagKept(S, t) ==
    IF Len(S.pendingFetches) = 0
    THEN [S EXCEPT !.item = NoItem]
    ELSE LET timeSinceLastFetch == t - S.lastFetchTime
         IN  IF timeSinceLastFetch < minFetchInterval
             THEN [S EXCEPT !.drains = Append(@,
                      Drain("sleep", "", t, t + SleepTime(timeSinceLastFetch), Undefined, FALSE))]
             ELSE AfterWait(S, t, t)

\* The while loop of processFetchQueue from its head, at clock t, up to the
\* next await or to the end of the function.
DrainLoop(S, t) ==
    IF Len(S.pendingFetches) = 0
    THEN [S EXCEPT !.isProcessingQueue = FALSE, !.item = NoItem]
    ELSE LET timeSinceLastFetch == t - S.lastFetchTime
         IN  IF timeSinceLastFetch < minFetchInterval
             THEN [S EXCEPT !.drains = Append(@,
                      Drain("sleep", "", t, t + SleepTime(timeSinceLastFetch), Undefined, FALSE))]
             ELSE AfterWait(S, t, t)

\* The loop body after the rate-limit wait: loopNow is the `now` the iteration
\* read before the wait, t the clock.
AfterWait(S, loopNow, t) ==
    IF Len(S.pendingFetches) = 0
    THEN [S EXCEPT !.isProcessingQueue = FALSE, !.item = NoItem]
    ELSE LET S1 == [S EXCEPT !.item = Head(S.pendingFetches), !.pendingFetches = Tail(@)]
         IN  IF loopNow - S1.item.timestamp > staleLimit
             THEN DrainLoop([S1 EXCEPT !.outcome = Ended(S1.item.signature, "stale")], t)
             ELSE fetchAndProcessTransaction([S1 EXCEPT !.lastFetchTime = t],
                                             S1.item.signature, t)

\* variant: the ledger is not consulted
fetchAndProcessTransaction_NoLedgerCheck(S, signature, t) ==
    [S EXCEPT !.drains = Append(@, Drain("fetch", signature, t, t, Undefined, FALSE)),
              !.outcome = Ended(signature, "running"),
              !.fetchCount[signature] = @ + 1]

\* fetchAndProcessTransaction up to its first await
fetchAndProcessTransaction(S, signature, t) ==
    IF InSeq(S.processedSignatures, signature)
    THEN DrainLoop([S EXCEPT !.outcome = Ended(signature, "skipped")], t)
    ELSE [S EXCEPT !.drains = Append(@, Drain("fetch", signature, t, t, Undefined, FALSE)),
                   !.outcome = Ended(signature, "running"),
                   !.fetchCount[signature] = @ + 1]

\* variant: isProcessingQueue is not tested on entry
processFetchQueue_NoGuard(S, t) ==
    IF Len(S.pendingFetches) = 0
    THEN S
    ELSE DrainLoop([S EXCEPT !.isProcessingQueue = TRUE], t)

\* async function processFetchQueue(), called at clock t, up to its first await
processFetchQueue(S, t) ==
    IF S.isProcessingQueue \/ Len(S.pendingFetches) = 0
    THEN S
    ELSE DrainLoop([S EXCEPT !.isProcessingQueue = TRUE], t)

\* what awaiting getParsedTransaction yields: a record, null, or a thrown error
\* with its message (Undefined: an error without a message)
ErrorMessages == {MSG_429, MSG_TooManyRequests, MSG_too_many_lower, MSG_FetchFailed, Undefined}

FetchAnswers ==
    {[kind |-> "record", message |-> Undefined], [kind |-> "null", message |-> Undefined]}
    \cup {[kind |-> "throw", message |-> message] : message \in ErrorMessages}

\* variant: every error with a message is taken for a rate-limit error
IsRateLimitError_AnyMessage(message) == IsString(message)

\* error?.message?.includes('429') || error?.message?.includes('Too Many Requests')
IsRateLimitError(message) ==
    IsString(message) /\ (Includes(message, KW_429) \/ Includes(message, KW_TooManyRequests))

\* fetchAndProcessTransaction from the answer of getParsedTransaction to its
\* next await or its return, and on into the loop
FetchAnswered(S, signature, answer, t) ==
    CASE answer.kind = "null" ->
            DrainLoop([S EXCEPT !.outcome = Ended(signature, "notFound")], t)
      [] answer.kind = "throw" /\ IsRateLimitError(answer.message) ->
            DrainLoop([S EXCEPT !.retryTimers = Append(@, [signature |-> signature,
                                                           fireAt |-> t + retryDelay]),
                                !.outcome = Ended(signature, "retry")], t)
      [] answer.kind = "throw" /\ ~IsRateLimitError(answer.message) ->
            DrainLoop([S EXCEPT !.outcome = Ended(signature, "error")], t)
      [] OTHER ->
            LET tx        == TxOf(signature)
                detection == detectMigrationFromTransaction(tx, signature)
                S1        == [S EXCEPT !.classifyCount[signature] = @ + 1]
                S2        == [S1 EXCEPT !.processedSignatures = SetAdd(@, signature)]
                migration == parseMigrationTransactionFromParsed(tx, detection.tokenMint, signature)
            IN  IF ~detection.isMigration
                THEN DrainLoop([S1 EXCEPT !.outcome = Ended(signature, "notMigration")], t)
                ELSE IF migration.isNull \/ ~Truthy(migration.tokenMint)
                THEN DrainLoop([S2 EXCEPT !.outcome = Ended(signature, "noMint")], t)
                ELSE [S2 EXCEPT !.drains = Append(@,
                         Drain("tokenData", signature, t, t, migration.tokenMint, FALSE))]

\* variant: without token data no alert is sent
TokenDataAnswered_SkipOnFailure(S, d, found) ==
    IF found
    THEN [S EXCEPT !.alerts = Append(@, [signature |-> d.signature, tokenMint |-> d.mint,
                                         name |-> "name"]),
                   !.drains = Append(@, [d EXCEPT !.pc = "alert", !.basic = FALSE])]
    ELSE [S EXCEPT !.drains = Append(@, [d EXCEPT !.pc = "alert", !.basic = TRUE])]

\* from the answer of fetchTokenData to the call of sendMigrationAlert
TokenDataAnswered(S, d, found) ==
    [S EXCEPT !.alerts = Append(@, [signature |-> d.signature, tokenMint |-> d.mint,
                                    name |-> IF found THEN "name" ELSE "Unknown Token"]),
              !.drains = Append(@, [d EXCEPT !.pc = "alert", !.basic = ~found])]

\* from the return of sendMigrationAlert to the return of
\* fetchAndProcessTransaction, and on into the loop
AlertSent(S, d, t) ==
    IF d.basic
    THEN DrainLoop([S EXCEPT !.outcome = Ended(d.signature, "alertBasic")], t)
    ELSE DrainLoop([S EXCEPT !.processedSignatures = CleanUp(@),
                             !.outcome = Ended(d.signature, "alertFull")], t)

(***************************************************************************)
(* The stream client, HeliusWebSocketClient.                               *)
(***************************************************************************)
\* a number | null field
NullId == [null |-> TRUE, value |-> 0]
Number(n) == [null |-> FALSE, value |-> n]

\* ids the subscribe request may carry:
\* Math.floor(Date.now() / 1000) + Math.floor(Math.random() * 1000)
RequestIds == {1, 2}

\* close codes of the 'close' event: normal, abnormal, policy violation,
\* unsupported data
CloseCodes == {1000, 1006, 1008, 1003}

\* code === 1008 || code === 1003
IsAuthClose(code) == code = 1008 \/ code = 1003

\* params.result of an inbound message
NoResult == [type |-> "undefined", number |-> 0, transaction |-> FALSE]
NumberResult(n) == [type |-> "number", number |-> n, transaction |-> FALSE]
ObjectResult(transaction) == [type |-> "object", number |-> 0, transaction |-> transaction]

\* An inbound frame: json says whether the text is invalid JSON, the JSON
\* null, or an object; id 0 stands for a missing id; method "" for none.
Frame(name, json, error, id, method, result) ==
    [name |-> name, json |-> json, error |-> error, id |-> id, method |-> method,
     result |-> result]

Frames ==
    {Frame("garbage", "invalid", FALSE, 0, "", NoResult),
     Frame("null", "null", FALSE, 0, "", NoResult),
     Frame("error", "object", TRUE, 1, "", NoResult),
     Frame("errorNotification", "object", TRUE, 0, "logsNotification", ObjectResult(FALSE)),
     Frame("confirmZero", "object", FALSE, 1, "", NumberResult(0)),
     Frame("resultOnTop", "object", FALSE, 1, "", NoResult),
     Frame("logs", "object", FALSE, 0, "logsNotification", ObjectResult(FALSE)),
     Frame("transaction", "object", FALSE, 0, "transactionNotification", ObjectResult(TRUE)),
     Frame("other", "object", FALSE, 0, "slotNotification", ObjectResult(FALSE))}
    \cup {Frame("confirm", "object", FALSE, id, "", NumberResult(n)) :
              id \in RequestIds, n \in {7, -3}}

\* the fields of the client, so that a handler is a function from client to
\* client
Client ==
    [ws |-> ws, sockets |-> sockets, reconnectInterval |-> reconnectInterval,
     pingInterval |-> pingInterval, subscriptionId |-> subscriptionId,
     reconnectAttempts |-> reconnectAttempts, isReconnecting |-> isReconnecting,
     timers |-> timers, sentId |-> sentId, forwarded |-> forwarded]

CommitClient(C) ==
    /\ ws' = C.ws
    /\ sockets' = C.sockets
    /\ reconnectInterval' = C.reconnectInterval
    /\ pingInterval' = C.pingInterval
    /\ subscriptionId' = C.subscriptionId
    /\ reconnectAttempts' = C.reconnectAttempts
    /\ isReconnecting' = C.isReconnecting
    /\ timers' = C.timers
    /\ sentId' = C.sentId
    /\ forwarded' = C.forwarded

\* this.ws && this.ws.readyState === WebSocket.OPEN
WsOpen(C) == C.ws # 0 /\ C.sockets[C.ws] = "OPEN"

WithoutTimers(seq, kind) == SelectSeq(seq, LAMBDA timer : timer.kind # kind)

\* connect(): a new socket, handlers attached
connect(C) ==
    [C EXCEPT !.sockets = Append(@, "CONNECTING"), !.ws = Len(C.sockets) + 1,
              !.sentId = NullId]

\* subscribeToTransactions(), up to the setTimeout
subscribeToTransactions(C) ==
    IF ~WsOpen(C) THEN C
    ELSE [C EXCEPT !.timers = Append(@, [kind |-> "subscribe", origin |-> C.ws])]

\* variant: the callback sends without looking at the socket
SubscribeTimer_NoCheck(C, id) == [C EXCEPT !.sentId = Number(id)]

\* the setTimeout callback of subscribeToTransactions
SubscribeTimer(C, id) ==
    IF ~WsOpen(C) THEN C
    ELSE [C EXCEPT !.sentId = Number(id)]

\* variant: the error field is not looked at
handleMessage_NoErrorCheck(C, message) ==
    IF message.id # 0 /\ message.result.type = "number" /\ message.result.number # 0
    THEN [C EXCEPT !.subscriptionId = Number(message.result.number)]
    ELSE IF message.method = "logsNotification"
    THEN [C EXCEPT !.forwarded = Append(@, message.name)]
    ELSE IF message.result.type = "object" /\ message.result.transaction
    THEN [C EXCEPT !.forwarded = Append(@, message.name)]
    ELSE C

\* handleMessage(message), for a message that is an object
handleMessage(C, message) ==
    IF message.error THEN C
    ELSE IF message.id # 0 /\ message.result.type = "number" /\ message.result.number # 0
    THEN [C EXCEPT !.subscriptionId = Number(message.result.number)]
    ELSE IF message.method = "logsNotification"
    THEN [C EXCEPT !.forwarded = Append(@, message.name)]
    ELSE IF message.result.type = "object" /\ message.result.transaction
    THEN [C EXCEPT !.forwarded = Append(@, message.name)]
    ELSE C

\* the 'message' handler: JSON.parse and handleMessage inside try/catch; the
\* JSON null makes handleMessage throw on its first property read
OnMessage(C, message) ==
    IF message.json # "object" THEN C ELSE handleMessage(C, message)

\* startPingInterval()
startPingInterval(C) == [C EXCEPT !.pingInterval = TRUE]

\* cleanup()
cleanup(C) ==
    [C EXCEPT !.pingInterval = FALSE,
              !.timers = IF C.reconnectInterval THEN WithoutTimers(@, "reconnect") ELSE @,
              !.reconnectInterval = FALSE,
              !.subscriptionId = NullId]

\* variant: no bound on the attempts
scheduleReconnect_Unbounded(C) ==
    IF C.isReconnecting THEN C
    ELSE [C EXCEPT !.isReconnecting = TRUE,
                   !.reconnectAttempts = @ + 1,
                   !.reconnectInterval = TRUE,
                   !.timers = Append(@, [kind |-> "reconnect", origin |-> C.ws])]

\* scheduleReconnect()
scheduleReconnect(C) ==
    IF C.isReconnecting THEN C
    ELSE IF C.reconnectAttempts >= maxReconnectAttempts THEN C
    ELSE [C EXCEPT !.isReconnecting = TRUE,
                   !.reconnectAttempts = @ + 1,
                   !.reconnectInterval = TRUE,
                   !.timers = Append(@, [kind |-> "reconnect", origin |-> C.ws])]

\* the setTimeout callback of scheduleReconnect
ReconnectTimer(C) ==
    connect([C EXCEPT !.reconnectInterval = FALSE, !.isReconnecting = FALSE])

\* variant: the handler leaves reconnectAttempts alone
OnOpen_NoReset(C) == subscribeToTransactions(startPingInterval(C))

\* the 'open' handler
OnOpen(C) ==
    subscribeToTransactions(startPingInterval([C EXCEPT !.reconnectAttempts = 0]))

\* variant: the handler does not look at the close code
OnClose_AnyCode(C, code) == scheduleReconnect(cleanup(C))

\* the 'close' handler
OnClose(C, code) ==
    IF IsAuthClose(code) THEN C
    ELSE scheduleReconnect(cleanup(C))

\* variant: disconnect() clears the timers but leaves the socket alone
disconnect_NoClose(C) == cleanup(C)

\* disconnect()
disconnect(C) ==
    LET C1 == cleanup(C)
    IN  IF C1.ws = 0 THEN C1
        ELSE [C1 EXCEPT !.sockets[C1.ws] = IF @ = "CLOSED" THEN @ ELSE "CLOSING",
                        !.ws = 0]

InitClient ==
    /\ ws = 0
    /\ sockets = <<>>
    /\ reconnectInterval = FALSE
    /\ pingInterval = FALSE
    /\ subscriptionId = NullId
    /\ reconnectAttempts = 0
    /\ isReconnecting = FALSE
    /\ timers = <<>>
    /\ sentId = NullId
    /\ closeCode = 0
    /\ lastOpened = 0
    /\ received = 0
    /\ forwarded = <<>>
    /\ pings = 0
    /\ exited = FALSE

\* main() calls wsClient.connect(), once
Connect ==
    /\ ~exited
    /\ sockets = <<>>
    /\ CommitClient(connect(Client))
    /\ UNCHANGED <<detVars, pipeVars, closeCode, lastOpened, received, pings, exited>>

\* socket k emits 'open'
SocketOpens(k) ==
    /\ ~exited
    /\ sockets[k] = "CONNECTING"
    /\ lastOpened' = k
    /\ CommitClient(OnOpen([Client EXCEPT !.sockets[k] = "OPEN"]))
    /\ UNCHANGED <<detVars, pipeVars, closeCode, received, pings, exited>>

\* socket k emits 'message'
SocketMessage(k, message) ==
    /\ ~exited
    /\ sockets[k] = "OPEN"
    /\ received < MaxInbound
    /\ received' = received + 1
    /\ CommitClient(OnMessage(Client, message))
    /\ UNCHANGED <<detVars, pipeVars, closeCode, lastOpened, pings, exited>>

\* socket k emits 'close' (after 'error', which only logs, when the
\* connection failed)
SocketCloses(k, code) ==
    /\ ~exited
    /\ sockets[k] \in {"CONNECTING", "OPEN", "CLOSING"}
    /\ closeCode' = code
    /\ CommitClient(OnClose([Client EXCEPT !.sockets[k] = "CLOSED"], code))
    /\ UNCHANGED <<detVars, pipeVars, lastOpened, received, pings, exited>>

\* the oldest pending timer is a subscribe timer, and fires
SubscribeTimerFires(id) ==
    /\ ~exited
    /\ timers # <<>>
    /\ Head(timers).kind = "subscribe"
    /\ CommitClient(SubscribeTimer([Client EXCEPT !.timers = Tail(@)], id))
    /\ UNCHANGED <<detVars, pipeVars, closeCode, lastOpened, received, pings, exited>>

\* the oldest pending timer is the reconnect timer, and fires
ReconnectTimerFires ==
    /\ ~exited
    /\ timers # <<>>
    /\ Head(timers).kind = "reconnect"
    /\ Len(sockets) < MaxSockets
    /\ CommitClient(ReconnectTimer([Client EXCEPT !.timers = Tail(@)]))
    /\ UNCHANGED <<detVars, pipeVars, closeCode, lastOpened, received, pings, exited>>

\* the setInterval callback of startPingInterval sends a ping
Ping ==
    /\ ~exited
    /\ pingInterval
    /\ WsOpen(Client)
    /\ pings < MaxPings
    /\ pings' = pings + 1
    /\ UNCHANGED <<detVars, pipeVars, ws, sockets, reconnectInterval, pingInterval,
                   subscriptionId, reconnectAttempts, isReconnecting, timers, sentId,
                   closeCode, lastOpened, received, forwarded, exited>>

\* SIGINT or SIGTERM: wsClient.disconnect() and process.exit(0)
Shutdown ==
    /\ ~exited
    /\ sockets # <<>>
    /\ exited' = TRUE
    /\ CommitClient(disconnect(Client))
    /\ UNCHANGED <<detVars, pipeVars, closeCode, lastOpened, received, pings>>

(***************************************************************************)
(* The alert sender, TelegramBotHandler.                                   *)
(***************************************************************************)
\* chat ids of the users who write to the bot
ChatIds == {1, 2}

MaxCommands == 3
MaxAlerts == 2

DigitChars == {"0", "1", "2", "3", "4", "5", "6", "7", "8", "9"}

DigitValue(c) ==
    CASE c = "0" -> 0 [] c = "1" -> 1 [] c = "2" -> 2 [] c = "3" -> 3 [] c = "4" -> 4
      [] c = "5" -> 5 [] c = "6" -> 6 [] c = "7" -> 7 [] c = "8" -> 8 [] c = "9" -> 9

NaN == [nan |-> TRUE, value |-> 0]

RECURSIVE DigitPrefix(_)
DigitPrefix(str) ==
    IF str # <<>> /\ Head(str) \in DigitChars
    THEN <<Head(str)>> \o DigitPrefix(Tail(str))
    ELSE <<>>

RECURSIVE DigitsValue(_)
DigitsValue(digits) ==
    IF digits = <<>> THEN 0
    ELSE 10 * DigitsValue(SubSeq(digits, 1, Len(digits) - 1)) + DigitValue(digits[Len(digits)])

\* parseInt(id) of a trimmed string without radix prefix: an optional sign,
\* then the longest run of digits; NaN when there is none
parseInt(str) ==
    LET signed == str # <<>> /\ Head(str) \in {"-", "+"}
        digits == DigitPrefix(IF signed THEN Tail(str) ELSE str)
    IN  IF digits = <<>> THEN NaN
        ELSE [nan |-> FALSE,
              value |-> IF signed /\ Head(str) = "-" THEN 0 - DigitsValue(digits)
                        ELSE DigitsValue(digits)]

\* the values of USER_CHAT_IDS, split at ',' and trimmed: '', '1', '1,2',
\* 'abc,2', '2,2x'
ConfigLists ==
    {<<>>, << <<"1">> >>, << <<"1">>, <<"2">> >>, << <<"a", "b", "c">>, <<"2">> >>,
     << <<"2">>, <<"2", "x">> >>}

TXT_start == <<"/", "s", "t", "a", "r", "t">>
TXT_stop == <<"/", "s", "t", "o", "p">>
TXT_status == <<"/", "s", "t", "a", "t", "u", "s">>
\* '/stop/start'
TXT_stop_start == TXT_stop \o TXT_start

CommandTexts == {TXT_start, TXT_stop, TXT_status, TXT_stop_start}

\* Set.prototype.delete on a Set kept in insertion order
SetDelete(set, x) == SelectSeq(set, LAMBDA y : y # x)

\* the constructor's forEach over config.userChatIds
RECURSIVE InitialUsers(_)
InitialUsers(ids) ==
    IF ids = <<>> THEN <<>>
    ELSE LET rest   == InitialUsers(SubSeq(ids, 1, Len(ids) - 1))
             chatId == parseInt(ids[Len(ids)])
         IN  IF ~chatId.nan THEN SetAdd(rest, chatId.value) ELSE rest

\* variant: /stop leaves the Set alone
onText_StopIgnored(users, chatId, text) ==
    IF Includes(text, TXT_start) THEN SetAdd(users, chatId) ELSE users

\* the onText handlers of setupCommands, in the order they were registered:
\* /\/start/ adds the chat id, /\/stop/ deletes it, /\/status/ changes nothing
onText(users, chatId, text) ==
    LET started == IF Includes(text, TXT_start) THEN SetAdd(users, chatId) ELSE users
    IN  IF Includes(text, TXT_stop) THEN SetDelete(started, chatId) ELSE started

NoCall == [active |-> FALSE, n |-> 0, promises |-> <<>>]

\* sendMigrationAlert up to its await: Array.from(subscribedUsers).map starts
\* one send per chat id, in order
sendMigrationAlert(users, n) ==
    [active |-> TRUE, n |-> n,
     promises |-> [i \in 1..Len(users) |->
                      [chatId |-> users[i], state |-> "pending", logged |-> FALSE]]]

\* variant: the send is not wrapped in try/catch
settle_NoCatch(promise, ok) ==
    [promise EXCEPT !.state = IF ok THEN "fulfilled" ELSE "rejected"]

\* the async arrow function of one chat id ends: a failed send is caught and
\* logged
settle(promise, ok) ==
    [promise EXCEPT !.state = "fulfilled", !.logged = ~ok]

\* await Promise.allSettled(promises)
allSettled(promises) ==
    IF \A i \in 1..Len(promises) : promises[i].state # "pending" THEN "resolved" ELSE "pending"

InitBot ==
    /\ userChatIds \in ConfigLists
    /\ subscribedUsers = InitialUsers(userChatIds)
    /\ commands = <<>>
    /\ sends = <<>>
    /\ call = NoCall
    /\ results = <<>>

IdleBot ==
    /\ userChatIds = <<>>
    /\ subscribedUsers = <<>>
    /\ commands = <<>>
    /\ sends = <<>>
    /\ call = NoCall
    /\ results = <<>>

\* a chat message arrives
BotCommand(chatId, text) ==
    /\ Len(commands) < MaxCommands
    /\ commands' = Append(commands, [chatId |-> chatId, text |-> text])
    /\ subscribedUsers' = onText(subscribedUsers, chatId, text)
    /\ UNCHANGED <<detVars, queueVars, clientVars, userChatIds, sends, call, results>>

\* the orchestrator calls sendMigrationAlert
CallSendMigrationAlert ==
    /\ ~call.active
    /\ Len(results) < MaxAlerts
    /\ call' = sendMigrationAlert(subscribedUsers, Len(results) + 1)
    /\ sends' = sends \o [i \in 1..Len(subscribedUsers) |->
                              [n |-> Len(results) + 1, chatId |-> subscribedUsers[i]]]
    /\ UNCHANGED <<detVars, queueVars, clientVars, userChatIds, subscribedUsers, commands,
                   results>>

\* bot.sendMessage for the i-th chat id of the call succeeds or fails
SendSettles(i, ok) ==
    /\ call.active
    /\ call.promises[i].state = "pending"
    /\ call' = [call EXCEPT !.promises[i] = settle(@, ok)]
    /\ UNCHANGED <<detVars, queueVars, clientVars, userChatIds, subscribedUsers, commands,
                   sends, results>>

\* every send has settled: sendMigrationAlert returns
AlertCompletes ==
    /\ call.active
    /\ allSettled(call.promises) # "pending"
    /\ results' = Append(results, allSettled(call.promises))
    /\ call' = NoCall
    /\ UNCHANGED <<detVars, queueVars, clientVars, userChatIds, subscribedUsers, commands,
                   sends>>

(***************************************************************************)
(* Initial state and actions of the orchestrator.                          *)
(***************************************************************************)
InitPipeline ==
    /\ now = StartTime
    /\ pendingFetches = <<>>
    /\ processedSignatures = <<>>
    /\ lastFetchTime = 0
    /\ isProcessingQueue = FALSE
    /\ drains = <<>>
    /\ retryTimers = <<>>
    /\ events = 0
    /\ n429 = 0
    /\ alerts = <<>>
    /\ fetchCount = [s \in Signatures |-> 0]
    /\ classifyCount = [s \in Signatures |-> 0]
    /\ enqCount = [s \in Signatures |-> 0]
    /\ dupQueued = {}
    /\ fetchFailed = {}
    /\ outcome = Ended("", "none")
    /\ item = NoItem

\* the times the pending timers are set for
Deadlines ==
    {drains[i].wakeAt : i \in {j \in 1..Len(drains) : drains[j].pc = "sleep"}}
    \cup {retryTimers[i].fireAt : i \in 1..Len(retryTimers)}

\* time t is not past any pending timer: a timer fires when it is due
NoTimerBefore(t) == \A deadline \in Deadlines : t <= deadline

Later(t, u) == IF t >= u THEN t ELSE u

\* nothing is pending, and the clock reaches the end of the rate-limit interval
Idle ==
    /\ drains = <<>>
    /\ retryTimers = <<>>
    /\ now < lastFetchTime + minFetchInterval
    /\ now' = lastFetchTime + minFetchInterval
    /\ UNCHANGED <<detVars, outerVars, pendingFetches, processedSignatures, lastFetchTime,
                   isProcessingQueue, drains, retryTimers, events, n429, alerts,
                   fetchCount, classifyCount, enqCount, dupQueued, fetchFailed, outcome, item>>

\* variant: the callback without the pre-filter on the log lines
OnTransaction_NoPreFilter(message) ==
    /\ events < env.maxEvents
    /\ message \in env.messages
    /\ events' = events + 1
    /\ LET signature == message.signature
           logs      == message.logs
           queued    == message.hasSignature
           S1        == [Store EXCEPT !.pendingFetches =
                                         Append(@, [signature |-> signature, timestamp |-> now])]
       IN  IF queued
           THEN /\ Commit(processFetchQueue(S1, now))
                /\ enqCount' = [enqCount EXCEPT ![signature] = @ + 1]
                /\ dupQueued' = IF \/ \E i \in 1..Len(pendingFetches) :
                                          pendingFetches[i].signature = signature
                                   \/ \E i \in 1..Len(drains) :
                                          drains[i].signature = signature
                                THEN dupQueued \cup {signature} ELSE dupQueued
           ELSE /\ Commit(Store)
                /\ UNCHANGED <<enqCount, dupQueued>>
    /\ UNCHANGED <<detVars, outerVars, now, n429, fetchFailed>>

\* the callback handed to HeliusWebSocketClient
OnTransaction(message) ==
    /\ events < env.maxEvents
    /\ message \in env.messages
    /\ events' = events + 1
    /\ LET signature == message.signature
           logs      == message.logs
           queued    == message.hasSignature
                        /\ (Len(logs) > 0 => hasMigrationIndicators(logs))
           S1        == [Store EXCEPT !.pendingFetches =
                                         Append(@, [signature |-> signature, timestamp |-> now])]
       IN  IF queued
           THEN /\ Commit(processFetchQueue(S1, now))
                /\ enqCount' = [enqCount EXCEPT ![signature] = @ + 1]
                /\ dupQueued' = IF \/ \E i \in 1..Len(pendingFetches) :
                                          pendingFetches[i].signature = signature
                                   \/ \E i \in 1..Len(drains) :
                                          drains[i].signature = signature
                                THEN dupQueued \cup {signature} ELSE dupQueued
           ELSE /\ Commit(Store)
                /\ UNCHANGED <<enqCount, dupQueued>>
    /\ UNCHANGED <<detVars, outerVars, now, n429, fetchFailed>>

\* the rate-limit wait of drain i is over
WakeUp(i) ==
    /\ drains[i].pc = "sleep"
    /\ NoTimerBefore(drains[i].wakeAt)
    /\ now' = Later(now, drains[i].wakeAt)
    /\ Commit(AfterWait([Store EXCEPT !.drains = RemoveAt(@, i)], drains[i].loopNow, now'))
    /\ UNCHANGED <<detVars, outerVars, events, n429, enqCount, dupQueued, fetchFailed>>

\* getParsedTransaction of drain i answers after some time: a record, null, or
\* an error
FetchReturn(i, answer, latency) ==
    /\ drains[i].pc = "fetch"
    /\ latency \in env.latencies
    /\ NoTimerBefore(now + latency)
    /\ now' = now + latency
    /\ IsRateLimitError(answer.message) => n429 < env.max429
    /\ drains[i].signature \in env.rateLimited => IsRateLimitError(answer.message)
    /\ n429' = IF IsRateLimitError(answer.message) THEN n429 + 1 ELSE n429
    /\ fetchFailed' = IF answer.kind = "record" THEN fetchFailed
                      ELSE fetchFailed \cup {drains[i].signature}
    /\ Commit(FetchAnswered([Store EXCEPT !.drains = RemoveAt(@, i)],
                            drains[i].signature, answer, now'))
    /\ UNCHANGED <<detVars, outerVars, events, enqCount, dupQueued>>

\* fetchTokenData of drain i answers: token data, or null
TokenDataReturn(i, found) ==
    /\ drains[i].pc = "tokenData"
    /\ Commit(TokenDataAnswered([Store EXCEPT !.drains = RemoveAt(@, i)], drains[i], found))
    /\ UNCHANGED <<detVars, outerVars, now, events, n429, enqCount, dupQueued, fetchFailed>>

\* sendMigrationAlert of drain i returns
AlertReturn(i) ==
    /\ drains[i].pc = "alert"
    /\ Commit(AlertSent([Store EXCEPT !.drains = RemoveAt(@, i)], drains[i], now))
    /\ UNCHANGED <<detVars, outerVars, now, events, n429, enqCount, dupQueued, fetchFailed>>

\* variant: the retry puts the signature at the front of the queue
RetryTimerFires_Front ==
    /\ retryTimers # <<>>
    /\ NoTimerBefore(Head(retryTimers).fireAt)
    /\ now' = Later(now, Head(retryTimers).fireAt)
    /\ LET timer == Head(retryTimers)
           S0 == [Store EXCEPT !.retryTimers = Tail(@)]
           S1 == [S0 EXCEPT !.pendingFetches =
                                <<[signature |-> timer.signature, timestamp |-> now']>> \o @]
       IN  IF ~InSeq(processedSignatures, timer.signature)
           THEN Commit(processFetchQueue(S1, now'))
           ELSE Commit(S0)
    /\ UNCHANGED <<detVars, outerVars, events, n429, enqCount, dupQueued, fetchFailed>>

\* variant: the callback forgets the signature
RetryTimerFires_Dropped ==
    /\ retryTimers # <<>>
    /\ NoTimerBefore(Head(retryTimers).fireAt)
    /\ now' = Later(now, Head(retryTimers).fireAt)
    /\ Commit([Store EXCEPT !.retryTimers = Tail(@)])
    /\ UNCHANGED <<detVars, outerVars, events, n429, enqCount, dupQueued, fetchFailed>>

\* the setTimeout callback of the 429 retry: the delays are equal, so the
\* oldest timer is the first to fire
RetryTimerFires ==
    /\ retryTimers # <<>>
    /\ NoTimerBefore(Head(retryTimers).fireAt)
    /\ now' = Later(now, Head(retryTimers).fireAt)
    /\ LET timer == Head(retryTimers)
           S0 == [Store EXCEPT !.retryTimers = Tail(@)]
           S1 == [S0 EXCEPT !.pendingFetches =
                                Append(@, [signature |-> timer.signature, timestamp |-> now'])]
       IN  IF ~InSeq(processedSignatures, timer.signature)
           THEN Commit(processFetchQueue(S1, now'))
           ELSE Commit(S0)
    /\ UNCHANGED <<detVars, outerVars, events, n429, enqCount, dupQueued, fetchFailed>>

NextPipeline ==
    \/ Idle
    \/ \E message \in Messages : OnTransaction(message)
    \/ \E i \in 1..Len(drains) : WakeUp(i)
    \/ \E i \in 1..Len(drains), answer \in FetchAnswers,
          latency \in FetchLatencies \cup BurstLatencies : FetchReturn(i, answer, latency)
    \/ \E i \in 1..Len(drains), found \in BOOLEAN : TokenDataReturn(i, found)
    \/ \E i \in 1..Len(drains) : AlertReturn(i)
    \/ RetryTimerFires

Init == env = MixedEnv /\ IdleDetector /\ InitPipeline /\ InitClient /\ IdleBot

Next == NextPipeline

Spec == Init /\ [][Next]_vars

\* the awaited collaborators answer: every pending getParsedTransaction,
\* fetchTokenData and sendMigrationAlert promise settles
SpecLive ==
    /\ Spec
    /\ WF_vars(\E i \in 1..Len(drains), found \in BOOLEAN : TokenDataReturn(i, found))

InitDetect == env = MixedEnv /\ InitDetector /\ InitPipeline /\ InitClient /\ IdleBot

NextDetect == Detect

SpecDetect == InitDetect /\ [][NextDetect]_vars

\* the part_000 detector on records with missing or malformed fields
InitMalformed ==
    /\ env = MixedEnv
    /\ dTx \in MalformedInputs
    /\ dFile = "part_000"
    /\ dDone = FALSE
    /\ dResult = NotMigration
    /\ dThrew = FALSE
    /\ InitPipeline /\ InitClient /\ IdleBot

SpecMalformed == InitMalformed /\ [][NextDetect]_vars

\* the part_000 detector under the default and under a configured program id
InitConfigured ==
    /\ env \in {MixedEnv, CustomEnv}
    /\ dTx \in ConfiguredInputs
    /\ dFile = "part_000"
    /\ dDone = FALSE
    /\ dResult = NotMigration
    /\ dThrew = FALSE
    /\ InitPipeline /\ InitClient /\ IdleBot

SpecConfigured == InitConfigured /\ [][NextDetect]_vars

InitBurst == env = BurstEnv /\ IdleDetector /\ InitPipeline /\ InitClient /\ IdleBot

SpecBurst == InitBurst /\ [][Next]_vars

InitRetry == env = RetryEnv /\ IdleDetector /\ InitPipeline /\ InitClient /\ IdleBot

SpecRetry == InitRetry /\ [][Next]_vars

\* every timer fires when it is due and every awaited promise settles: the
\* rate-limit wait, getParsedTransaction, fetchTokenData, sendMigrationAlert
\* and the 429 retry timer
SpecFair ==
    /\ InitBurst
    /\ [][Next]_vars
    /\ WF_vars(\E i \in 1..Len(drains) : WakeUp(i))
    /\ WF_vars(\E i \in 1..Len(drains), answer \in FetchAnswers,
                  latency \in FetchLatencies \cup BurstLatencies : FetchReturn(i, answer, latency))
    /\ WF_vars(\E i \in 1..Len(drains), found \in BOOLEAN : TokenDataReturn(i, found))
    /\ WF_vars(\E i \in 1..Len(drains) : AlertReturn(i))
    /\ WF_vars(RetryTimerFires)

NextClient ==
    \/ Connect
    \/ \E k \in 1..Len(sockets) : SocketOpens(k)
    \/ \E k \in 1..Len(sockets), message \in Frames : SocketMessage(k, message)
    \/ \E k \in 1..Len(sockets), code \in CloseCodes : SocketCloses(k, code)
    \/ \E id \in RequestIds : SubscribeTimerFires(id)
    \/ ReconnectTimerFires
    \/ Ping
    \/ Shutdown

SpecClient == Init /\ [][NextClient]_vars

\* the alert sender on its own: chat commands and calls of sendMigrationAlert
InitBotAlone == env = MixedEnv /\ IdleDetector /\ InitPipeline /\ InitClient /\ InitBot

NextBot ==
    \/ \E chatId \in ChatIds, text \in CommandTexts : BotCommand(chatId, text)
    \/ CallSendMigrationAlert
    \/ \E i \in 1..Len(call.promises), ok \in BOOLEAN : SendSettles(i, ok)
    \/ AlertCompletes

SpecBot == InitBotAlone /\ [][NextBot]_vars

(***************************************************************************)
(* Properties.                                                             *)
(***************************************************************************)
\* the record is present, has meta, and meta reports no execution error
ErrorFree(tx) == ~tx.null /\ tx.meta.present /\ ~tx.meta.err

\* some log line of the record contains the marker
LogsContain(tx, marker) ==
    tx.meta.hasLogs /\ \E i \in 1..Len(tx.meta.logMessages) : Includes(tx.meta.logMessages[i], marker)

ExclusionMarkers ==
    {MARKER_COLLECT_CREATOR_FEE, MARKER_MIGRATE_BONDING_CURVE_CREATOR,
     MARKER_DISTRIBUTE_CREATOR_FEES}

HasExclusionMarker(tx) == \E marker \in ExclusionMarkers : LogsContain(tx, marker)

\* C1: for every error-free record one of whose log lines contains an
\* exclusion marker (CollectCreatorFee, MigrateBondingCurveCreator,
\* DistributeCreatorFees), detectMigrationFromTransaction answers
\* isMigration = false, whichever other lines the logs hold.  The detector of
\* src/src/detectors/migration.ts violates it.
C1_ExclusionMarkerWins ==
    (dDone /\ ErrorFree(dTx) /\ HasExclusionMarker(dTx)) => ~dResult.isMigration

\* C1, the same statement for the detector of src/unnamed/part_000 alone
C1_ExclusionMarkerWins_part_000 ==
    (dDone /\ dFile = "part_000" /\ ErrorFree(dTx) /\ HasExclusionMarker(dTx))
        => ~dResult.isMigration

\* a record with the migration marker next to an exclusion marker has been
\* classified
C1_Witness ==
    /\ dDone
    /\ ErrorFree(dTx)
    /\ LogsContain(dTx, MARKER_MIGRATE)
    /\ LogsContain(dTx, MARKER_COLLECT_CREATOR_FEE)
    /\ dFile = "detectors/migration.ts"
    /\ dResult.isMigration

\* C2: for every error-free record whose log lines contain the exact marker
\* 'Instruction: Migrate' and no exclusion marker,
\* detectMigrationFromTransaction answers isMigration = true.
C2_MigrateMarkerDetected ==
    (dDone /\ ErrorFree(dTx) /\ LogsContain(dTx, MARKER_MIGRATE) /\ ~HasExclusionMarker(dTx))
        => dResult.isMigration

\* a record detected by its log line alone: no instruction of it says migrate
C2_Witness ==
    /\ dDone
    /\ dFile = "part_000"
    /\ ErrorFree(dTx)
    /\ LogsContain(dTx, MARKER_MIGRATE)
    /\ ~HasExclusionMarker(dTx)
    /\ ~Some(dTx.instructions, IsMigrateIx)
    /\ dResult.isMigration

\* C3: for every record whose meta reports an execution error, or that has
\* no meta, detectMigrationFromTransaction answers isMigration = false,
\* whatever its log lines and instructions.
C3_FailedNeverMigration ==
    (dDone /\ ~dTx.null /\ (~dTx.meta.present \/ dTx.meta.err)) => ~dResult.isMigration

\* a failed record carrying the migration marker and a migrate instruction has
\* been classified
C3_Witness ==
    /\ dDone
    /\ dFile = "part_000"
    /\ ~dTx.null /\ dTx.meta.present /\ dTx.meta.err
    /\ LogsContain(dTx, MARKER_MIGRATE)
    /\ ~HasExclusionMarker(dTx)
    /\ Some(dTx.instructions, IsMigrateIx)
    /\ ~dResult.isMigration

\* the account addresses of the record that have 44 characters and end in 'pump'
PumpAccounts(tx) ==
    {i \in 1..Len(tx.accountKeys) :
        /\ Len(KeyToString(tx.accountKeys[i])) = AddressLength
        /\ EndsWith(KeyToString(tx.accountKeys[i]), KW_pump)}

\* the first of them in the order of the account list
FirstPumpAccount(tx) ==
    KeyToString(tx.accountKeys[CHOOSE i \in PumpAccounts(tx) : \A j \in PumpAccounts(tx) : i <= j])

\* the chain's record of the signature is an error-free migration: its logs hold
\* 'Program log: Instruction: Migrate' and no exclusion marker, and its account
\* list holds a pump address
Qualifies(signature) ==
    /\ ErrorFree(TxOf(signature))
    /\ \E i \in 1..Len(TxOf(signature).meta.logMessages) :
           TxOf(signature).meta.logMessages[i] = LOG_Migrate
    /\ ~HasExclusionMarker(TxOf(signature))
    /\ PumpAccounts(TxOf(signature)) # {}

\* sendMigrationAlert has been called for the signature with this tokenMint
Alerted(signature, tokenMint) ==
    \E i \in 1..Len(alerts) :
        alerts[i].signature = signature /\ alerts[i].tokenMint = tokenMint

\* a call of fetchAndProcessTransaction is between its fetch and its return
InFlight == \E i \in 1..Len(drains) : drains[i].pc \in {"fetch", "tokenData", "alert"}

\* C4: end to end, once the stream has delivered the log notification of a
\* migration signature and getParsedTransaction has answered with its
\* error-free record, whose account list holds a 44-character address ending
\* in 'pump', sendMigrationAlert is eventually called for that signature with
\* tokenMint equal to that address (the first such address of the list).
C4_MigrationAlerted ==
    \A s \in Signatures :
        (Qualifies(s) /\ enqCount[s] >= 1 /\ classifyCount[s] >= 1)
            ~> Alerted(s, FirstPumpAccount(TxOf(s)))

\* the record of M2, whose account list holds two pump addresses, has gone from
\* the stream to sendMigrationAlert
C4_Witness ==
    /\ Qualifies("M2")
    /\ enqCount["M2"] >= 1
    /\ classifyCount["M2"] >= 1
    /\ Alerted("M2", ADDR_PumpB)

\* C5: when a dequeued signature has been fetched and the detector has
\* classified its record as not a migration, sendMigrationAlert is not called
\* for it and the signature is in the Dedup Ledger.
C5_NonMigrationLedgered ==
    outcome.kind = "notMigration"
        => /\ \A i \in 1..Len(alerts) : alerts[i].signature # outcome.signature
           /\ InSeq(processedSignatures, outcome.signature)

\* C5, the half that holds: no alert for a signature classified as not a migration
C5_NonMigrationNotAlerted ==
    outcome.kind = "notMigration"
        => \A i \in 1..Len(alerts) : alerts[i].signature # outcome.signature

\* C6: a signature enqueued again while it was queued or in flight, and whose
\* fetches all returned a record, is fetched once and classified once.
C6_DuplicateFetchedOnce ==
    \A s \in dupQueued \ fetchFailed : fetchCount[s] <= 1 /\ classifyCount[s] <= 1

\* C7: whenever no call of fetchAndProcessTransaction is in flight, the Dedup
\* Ledger holds at most LedgerCap signatures.
C7_LedgerBounded ==
    ~InFlight => Len(processedSignatures) <= LedgerCap

\* the last LedgerCap entries of the ledger
KeepLast(set) ==
    IF Len(set) > LedgerCap THEN SubSeq(set, Len(set) - LedgerCap + 1, Len(set)) ELSE set

\* the step in which a call that sent the full alert returns
FullAlertReturns ==
    /\ \E i \in 1..Len(drains) : drains[i].pc = "alert" /\ ~drains[i].basic
    /\ \A i \in 1..Len(drains') : drains'[i].pc # "alert"

\* C8: the eviction step, run on a ledger of n > LedgerCap signatures, removes
\* the n - LedgerCap earliest-inserted ones and keeps the LedgerCap most
\* recently inserted ones in their order; the ledger shrinks in no other step.
C8_EvictionOldestFirst ==
    [][/\ FullAlertReturns => processedSignatures' = KeepLast(processedSignatures)
       /\ Len(processedSignatures') < Len(processedSignatures)
              => (FullAlertReturns /\ Len(processedSignatures') = LedgerCap)]_vars

\* the eviction has run: a signature that was alerted, hence inserted, is gone
\* from the ledger, and the signature alerted last is in it
C8_Witness ==
    /\ outcome.kind = "alertFull"
    /\ Len(processedSignatures) = LedgerCap
    /\ InSeq(processedSignatures, outcome.signature)
    /\ \E i \in 1..Len(alerts) : ~InSeq(processedSignatures, alerts[i].signature)

\* C9: every call of getParsedTransaction is dispatched at least
\* minFetchInterval after the dispatch before it, within one run of the drain
\* loop and across runs, retries included.
C9_RateLimit ==
    [][(\E s \in Signatures : fetchCount'[s] > fetchCount[s])
           => lastFetchTime' - lastFetchTime >= minFetchInterval]_vars

\* a second fetch has been dispatched exactly minFetchInterval after the first
C9_Witness ==
    /\ \E s, t \in Signatures : s # t /\ fetchCount[s] >= 1 /\ fetchCount[t] >= 1
    /\ lastFetchTime = StartTime + minFetchInterval
    /\ \E i \in 1..Len(drains) : drains[i].pc = "fetch"

\* C10: at most one call of processFetchQueue is running, hence at most one
\* call of fetchAndProcessTransaction is in flight, and isProcessingQueue is set
\* while it runs.
C10_SingleDrain ==
    /\ Len(drains) <= 1
    /\ Len(drains) = 1 <=> isProcessingQueue

\* the 429 retry timer has fired and queued its signature while the fetch of
\* another signature is in flight
C10_Witness ==
    /\ Len(drains) = 1
    /\ drains[1].pc = "fetch"
    /\ n429 >= 1
    /\ retryTimers = <<>>
    /\ Len(pendingFetches) >= 1
    /\ \A i \in 1..Len(pendingFetches) : pendingFetches[i].signature # drains[1].signature

\* C11: an item is never dispatched to getParsedTransaction at an age (clock
\* at the dispatch minus its enqueue timestamp) above staleLimit, the rate-limit
\* wait before the dispatch included.
C11_NoStaleDispatch ==
    \A i \in 1..Len(drains) :
        drains[i].pc = "fetch" => lastFetchTime - item.timestamp <= staleLimit

\* C11, what holds instead: the age at the dispatch stays below staleLimit
\* plus one rate-limit wait
C11_StaleByLessThanOneWait ==
    \A i \in 1..Len(drains) :
        drains[i].pc = "fetch" => lastFetchTime - item.timestamp <= staleLimit + minFetchInterval

\* an item older than staleLimit is in flight
C11_Witness ==
    \E i \in 1..Len(drains) :
        /\ drains[i].pc = "fetch"
        /\ drains[i].signature = item.signature
        /\ now - item.timestamp > staleLimit

\* C12: a fetch that fails with a rate-limit error sets one timer for its
\* signature, due retryDelay later, and queues nothing at once; when the timer
\* fires and the signature is not in the ledger, the signature is appended to
\* the back of the queue with the clock as its timestamp and the drain loop
\* runs (the item is queued behind the others, or is the one just dequeued);
\* when the signature is in the ledger, nothing is queued.
C12_RetryAfterDelay ==
    [][/\ n429' > n429 =>
            \E i \in 1..Len(drains) :
                /\ drains[i].pc = "fetch"
                /\ retryTimers' = Append(retryTimers, [signature |-> drains[i].signature,
                                                       fireAt |-> now' + retryDelay])
                /\ Len(pendingFetches') <= Len(pendingFetches)
                /\ pendingFetches' = SubSeq(pendingFetches,
                                            Len(pendingFetches) - Len(pendingFetches') + 1,
                                            Len(pendingFetches))
       /\ Len(retryTimers') < Len(retryTimers) =>
            LET timer   == Head(retryTimers)
                retried == [signature |-> timer.signature, timestamp |-> now']
            IN  /\ retryTimers' = Tail(retryTimers)
                /\ now' = timer.fireAt
                /\ IF InSeq(processedSignatures, timer.signature)
                   THEN pendingFetches' = pendingFetches /\ drains' = drains
                   ELSE /\ isProcessingQueue'
                        /\ \/ pendingFetches' = Append(pendingFetches, retried)
                           \/ /\ pendingFetches = <<>> /\ pendingFetches' = <<>>
                              /\ item' = retried
                              /\ \E i \in 1..Len(drains') :
                                     /\ drains'[i].pc = "fetch"
                                     /\ drains'[i].signature = timer.signature]_vars

\* a signature notified once has been fetched a second time, by the retry, and
\* the retry was queued behind another item
C12_Witness ==
    \E s \in Signatures :
        /\ n429 = 1
        /\ enqCount[s] = 1
        /\ fetchCount[s] = 2
        /\ retryTimers = <<>>
        /\ \E t \in Signatures \ {s} : fetchCount[t] = 1

\* an answer of getParsedTransaction that is neither a record nor an error
\* whose message names the rate limit
OtherFailures ==
    {answer \in FetchAnswers :
        /\ answer.kind # "record"
        /\ ~(/\ IsString(answer.message)
             /\ (Includes(answer.message, KW_429) \/ Includes(answer.message, KW_TooManyRequests)))}

\* C13: when a fetch ends with 'not found' or with an error that is not a
\* rate-limit error, no retry timer is set, the ledger is unchanged, nothing is
\* added to the queue, and the drain loop goes on: it ends on an empty queue,
\* and otherwise waits for the rate limit or takes items from the front.
C13_OtherFailuresDropped ==
    [][\A i \in 1..Len(drains) : \A answer \in OtherFailures :
        \A latency \in FetchLatencies \cup BurstLatencies :
            FetchReturn(i, answer, latency) =>
                /\ retryTimers' = retryTimers
                /\ n429' = n429
                /\ processedSignatures' = processedSignatures
                /\ alerts' = alerts
                /\ Len(pendingFetches') <= Len(pendingFetches)
                /\ pendingFetches' = SubSeq(pendingFetches,
                                            Len(pendingFetches) - Len(pendingFetches') + 1,
                                            Len(pendingFetches))
                /\ IF pendingFetches = <<>>
                   THEN ~isProcessingQueue' /\ drains' = RemoveAt(drains, i)
                   ELSE \/ /\ pendingFetches' = pendingFetches
                           /\ isProcessingQueue'
                           /\ \E k \in 1..Len(drains') : drains'[k].pc = "sleep"
                        \/ Len(pendingFetches') < Len(pendingFetches)]_vars

\* a fetch has ended with an error that is not a rate-limit error while another
\* item was queued, and the loop waits to take that item
C13_Witness ==
    /\ outcome.kind \in {"error", "notFound"}
    /\ retryTimers = <<>>
    /\ n429 = 0
    /\ ~InSeq(processedSignatures, outcome.signature)
    /\ Len(pendingFetches) >= 1
    /\ \E k \in 1..Len(drains) : drains[k].pc = "sleep"

\* a reconnect timer is pending
ReconnectPending(seq) == \E i \in 1..Len(seq) : seq[i].kind = "reconnect"

\* socket k is closed by this step
ClosedNow(k) == sockets[k] # "CLOSED" /\ sockets'[k] = "CLOSED"

\* C14: once a socket has closed with code 1008 or 1003, connect() is not
\* called again, reconnectAttempts is not incremented and no reconnect timer
\* is pending; a close with any other code, while reconnectAttempts is below
\* maxReconnectAttempts, increments reconnectAttempts and sets the reconnect
\* timer.
C14_AuthCloseTerminal ==
    [][/\ closeCode' \in {1008, 1003} =>
            /\ Len(sockets') = Len(sockets)
            /\ reconnectAttempts' <= reconnectAttempts
            /\ ~ReconnectPending(timers')
            /\ ~isReconnecting'
       /\ \A k \in 1..Len(sockets) :
            (ClosedNow(k) /\ closeCode' \notin {1008, 1003}
                          /\ reconnectAttempts < maxReconnectAttempts) =>
                /\ reconnectAttempts' = reconnectAttempts + 1
                /\ ReconnectPending(timers')
                /\ isReconnecting']_vars

\* after a reconnect, the second socket has been open and has closed with an
\* authentication code, and every timer has fired
C14_Witness ==
    /\ closeCode \in {1008, 1003}
    /\ Len(sockets) = 2
    /\ sockets[2] = "CLOSED"
    /\ reconnectAttempts = 0
    /\ timers = <<>>
    /\ ~exited

\* the calls of connect() made by the reconnect timer since the last 'open'
\* (since the start, before any 'open')
AttemptsSinceOpen == Len(sockets) - (IF lastOpened = 0 THEN 1 ELSE lastOpened)

\* the closes with a code other than 1008 and 1003 since the last 'open',
\* that of the opened socket included
DisconnectsSinceOpen ==
    AttemptsSinceOpen
    + (IF sockets[Len(sockets)] = "CLOSED" /\ closeCode \notin {1008, 1003} THEN 1 ELSE 0)

\* C15: counting from the last 'open', the reconnect attempts never exceed
\* maxReconnectAttempts; after that many disconnects in a row exactly that
\* many attempts have been scheduled (the last may still wait for its timer),
\* and after one disconnect more no timer is pending and none is set.
C15_ReconnectBound ==
    (sockets # <<>> /\ ~exited) =>
        /\ AttemptsSinceOpen <= maxReconnectAttempts
        /\ DisconnectsSinceOpen <= maxReconnectAttempts => reconnectAttempts = DisconnectsSinceOpen
        /\ DisconnectsSinceOpen >= maxReconnectAttempts =>
              /\ reconnectAttempts = maxReconnectAttempts
              /\ \/ AttemptsSinceOpen = maxReconnectAttempts
                 \/ AttemptsSinceOpen = maxReconnectAttempts - 1 /\ ReconnectPending(timers)
        /\ DisconnectsSinceOpen > maxReconnectAttempts =>
              /\ AttemptsSinceOpen = maxReconnectAttempts
              /\ ~ReconnectPending(timers)
              /\ ~isReconnecting

\* the first socket was open; it and the sockets of all maxReconnectAttempts
\* attempts have closed, and nothing is pending
C15_Witness ==
    /\ lastOpened = 1
    /\ DisconnectsSinceOpen = maxReconnectAttempts + 1
    /\ AttemptsSinceOpen = maxReconnectAttempts
    /\ timers = <<>>
    /\ ~exited

\* C16: a message sets subscriptionId to a number only if the number is a
\* positive integer, the message arrives on the current socket, a subscribe
\* request has been sent on that socket and the id of the message is the id
\* of that request.
C16_ActiveOnlyOnCorrelatedConfirmation ==
    [][\A k \in 1..Len(sockets) : \A message \in Frames :
        (SocketMessage(k, message) /\ subscriptionId' # subscriptionId
                                   /\ ~subscriptionId'.null) =>
            /\ subscriptionId'.value > 0
            /\ k = ws
            /\ ~sentId.null
            /\ message.id = sentId.value]_vars

\* subscriptionId is set although no subscribe request has been sent on the
\* open socket
C16_Witness ==
    /\ ~subscriptionId.null
    /\ WsOpen(Client)
    /\ sentId.null

\* C17: a message that is not a JSON object, or that carries an error, changes
\* no field of the client and is not forwarded; a message with an id and a
\* numeric result is not forwarded; a message is forwarded only if it is an
\* object without error whose method is 'logsNotification' or whose
\* params.result carries a transaction, and then it is forwarded once.
C17_InboundDispatch ==
    [][\A k \in 1..Len(sockets) : \A message \in Frames :
        SocketMessage(k, message) =>
            /\ (message.json # "object" \/ message.error) =>
                  UNCHANGED <<ws, sockets, reconnectInterval, pingInterval, subscriptionId,
                              reconnectAttempts, isReconnecting, timers, forwarded>>
            /\ (message.id # 0 /\ message.result.type \in {"number", "undefined"}) =>
                  forwarded' = forwarded
            /\ forwarded' # forwarded =>
                  /\ forwarded' = Append(forwarded, message.name)
                  /\ message.json = "object"
                  /\ ~message.error
                  /\ \/ message.method = "logsNotification"
                     \/ message.result.type = "object" /\ message.result.transaction]_vars

\* of two messages received, the notification was forwarded and the other one
\* was dropped without a trace
C17_Witness ==
    /\ received = 2
    /\ forwarded = <<"logs">>
    /\ subscriptionId.null
    /\ WsOpen(Client)

\* C18: a number in subscriptionId implies that this.ws is an open socket.
C18_SubscribedImpliesOpen ==
    ~subscriptionId.null => WsOpen(Client)

\* C18: a step in which a socket closes, or in which disconnect() runs, ends
\* with subscriptionId null.
C18_CloseClearsSubscription ==
    [][((\E k \in 1..Len(sockets) : ClosedNow(k)) \/ exited' # exited) =>
            subscriptionId'.null]_vars

\* the socket has closed with an authentication code and subscriptionId still
\* holds the number confirmed on it
C18_Witness ==
    /\ ~subscriptionId.null
    /\ ws # 0
    /\ sockets[ws] = "CLOSED"
    /\ closeCode \in {1008, 1003}

\* C19: when the part_000 detector reports a migration for a record whose
\* account list holds a 44-character address ending in 'pump', the mint it
\* reports is the first such address of the list, whatever the instructions
\* hold.
C19_TopLevelPumpFirst ==
    (dDone /\ dFile = "part_000" /\ dResult.isMigration /\ PumpAccounts(dTx) # {}) =>
        dResult.tokenMint = FirstPumpAccount(dTx)

\* a migration with two pump addresses in the account list and an instruction
\* whose account index refers to the second of them: the first is reported
C19_Witness ==
    /\ dDone /\ dFile = "part_000" /\ dResult.isMigration
    /\ dTx.accountKeys = <<PublicKey(ADDR_PumpB), PublicKey(ADDR_PumpA)>>
    /\ dTx.instructions = <<IX_Accounts>>
    /\ dResult.tokenMint = ADDR_PumpB

\* the first element of seq that is not Undefined, Undefined when there is none
FirstDefined(seq) ==
    IF \E i \in 1..Len(seq) : seq[i] # Undefined
    THEN seq[CHOOSE i \in 1..Len(seq) : seq[i] # Undefined /\ \A j \in 1..(i - 1) : seq[j] = Undefined]
    ELSE Undefined

\* an address of the expected length ending in the vanity suffix
LooksLikeMintAddress(a) == Len(a) = AddressLength /\ EndsWith(a, KW_pump)

\* The reference procedure of the mint extraction, tier by tier.
TierA(tx) ==
    LET keys == [i \in 1..Len(tx.accountKeys) |-> KeyToString(tx.accountKeys[i])]
    IN  FirstDefined([i \in 1..Len(keys) |->
            IF LooksLikeMintAddress(keys[i]) THEN keys[i] ELSE Undefined])

TierB(tx) ==
    LET keys == [i \in 1..Len(tx.accountKeys) |-> KeyToString(tx.accountKeys[i])]
        ofIx(ix) ==
            FirstDefined([k \in 1..Len(ix.accounts) |->
                IF /\ ix.hasAccounts
                   /\ ix.accounts[k] >= 0 /\ ix.accounts[k] < Len(keys)
                   /\ LooksLikeMintAddress(keys[ix.accounts[k] + 1])
                THEN keys[ix.accounts[k] + 1] ELSE Undefined])
    IN  FirstDefined([i \in 1..Len(tx.instructions) |-> ofIx(tx.instructions[i])])

TierC(tx) ==
    LET ofIx(ix) ==
            IF ~ix.parsed THEN Undefined
            ELSE FirstDefined(<<ix.mint, ix.tokenMint, ix.account>>)
    IN  FirstDefined([i \in 1..Len(tx.instructions) |-> ofIx(tx.instructions[i])])

TierD(tx) ==
    LET keys == [i \in 1..Len(tx.accountKeys) |-> KeyToString(tx.accountKeys[i])]
    IN  FirstDefined([i \in 1..Len(keys) |->
            IF /\ Len(keys[i]) = AddressLength
               /\ keys[i] \notin {SYSTEM_PROGRAM, TOKEN_PROGRAM, TOKEN_2022_PROGRAM,
                                  ASSOCIATED_TOKEN_PROGRAM, pumpFunProgramId}
            THEN keys[i] ELSE Undefined])

ReferenceMint(tx) == FirstDefined(<<TierA(tx), TierB(tx), TierC(tx), TierD(tx)>>)

\* C20: the mint the part_000 detector reports for a migration is the result
\* of the reference procedure: tier a, else tier b, else tier c, else tier d.
C20_StrictPriority ==
    (dDone /\ dFile = "part_000" /\ dResult.isMigration) =>
        dResult.tokenMint = ReferenceMint(dTx)

\* a migration without a pump address whose decoded instruction names an
\* account: the detector reports another address than tier c, or none
C20_Witness ==
    /\ dDone /\ dFile = "part_000" /\ dResult.isMigration
    /\ dTx.instructions = <<IX_CloseAccount>>
    /\ TierA(dTx) = Undefined
    /\ TierB(dTx) = Undefined
    /\ TierC(dTx) = ADDR_PumpB
    /\ dResult.tokenMint # ADDR_PumpB

\* C21: when the detector has classified the record of a signature as a
\* migration and neither the detector nor the parser has found a mint,
\* sendMigrationAlert has still been called for the signature.
C21_UnresolvedStillReported ==
    outcome.kind = "noMint"
        => \E i \in 1..Len(alerts) : alerts[i].signature = outcome.signature

\* the record of N1 has been classified as a migration, no mint was found and
\* the call has returned without an alert
C21_Witness ==
    /\ outcome = Ended("N1", "noMint")
    /\ detectMigrationFromTransaction(TxOf("N1"), "N1").isMigration
    /\ ~Truthy(detectMigrationFromTransaction(TxOf("N1"), "N1").tokenMint)
    /\ classifyCount["N1"] >= 1
    /\ \A i \in 1..Len(alerts) : alerts[i].signature # "N1"

\* C22: the part_000 detector returns a DetectionResult for every record,
\* also for records with missing fields or null entries: it never throws.
C22_DetectorNeverRaises ==
    dDone => ~dThrew

\* the detector has thrown on a record that has meta but no transaction
C22_Witness ==
    /\ dDone
    /\ dThrew
    /\ ~dTx.null /\ dTx.meta.present /\ ~dTx.meta.err
    /\ ~dTx.hasTransaction

\* the log line contains the migrate marker in some letter case
HasMarkerAnyCase(log) == Includes(ToLowerCase(log), ToLowerCase(MARKER_MIGRATE))

\* C23: the migration-indicator check of the part_000 detector is
\* case-insensitive: an error-free record with a log line that contains the
\* migrate marker in any letter case, and without an exclusion marker, is
\* classified as a migration, exactly as with 'Instruction: Migrate'.
C23_CaseInsensitiveMarker ==
    (/\ dDone /\ dFile = "part_000" /\ ~dThrew
     /\ ~dTx.null /\ dTx.meta.present /\ ~dTx.meta.err /\ dTx.meta.hasLogs
     /\ \E i \in 1..Len(dTx.meta.logMessages) : HasMarkerAnyCase(dTx.meta.logMessages[i])
     /\ ~hasCollectFee(dTx.meta.logMessages))
        => dResult.isMigration

\* the detector has answered "no migration" for a record whose only log line
\* is 'program log: instruction: migrate'
C23_Witness ==
    /\ dDone /\ dFile = "part_000" /\ ~dThrew
    /\ ~dTx.null /\ dTx.meta.present /\ ~dTx.meta.err /\ dTx.meta.hasLogs
    /\ dTx.meta.logMessages = <<LOG_migrate_lower>>
    /\ ~dResult.isMigration

\* the record's logs hold migration-themed text (the word 'migrate' or
\* 'migration' in some letter case) but not the token 'Instruction: Migrate',
\* and no instruction of the record is a migrate instruction of the watched
\* program
OnlyThemedText(tx) ==
    /\ ErrorFree(tx) /\ tx.meta.hasLogs
    /\ \E i \in 1..Len(tx.meta.logMessages) :
           \/ Includes(ToLowerCase(tx.meta.logMessages[i]), KW_migrate)
           \/ Includes(ToLowerCase(tx.meta.logMessages[i]), KW_migration)
    /\ ~LogsContain(tx, MARKER_MIGRATE)
    /\ ~Some(tx.instructions, IsMigrateIx)

\* C24: the detector matches the exact marker, not a loose keyword: a record
\* with only migration-themed log text and no migrate instruction of the
\* watched program is not classified as a migration.  The detector of
\* src/src/detectors/migration.ts violates it.
C24_ExactMarkerOnly ==
    (dDone /\ ~dThrew /\ OnlyThemedText(dTx)) => ~dResult.isMigration

\* C24, the same statement for the detector of src/unnamed/part_000 alone
C24_ExactMarkerOnly_part_000 ==
    (dDone /\ ~dThrew /\ dFile = "part_000" /\ OnlyThemedText(dTx)) => ~dResult.isMigration

\* the legacy detector has classified a record whose only log line is
\* 'Program log: migration fee paid' as a migration
C24_Witness ==
    /\ dDone
    /\ dFile = "detectors/migration.ts"
    /\ OnlyThemedText(dTx)
    /\ dTx.meta.logMessages = <<LOG_migration_text>>
    /\ dResult.isMigration

\* C25: the pre-filter of the stream callback.  In every step that handles a
\* stream event: an event with a signature and at least one log line is
\* enqueued if and only if hasMigrationIndicators(logs); an event with a
\* signature and no log line is enqueued; an event without a signature is not
\* enqueued.  "Enqueued" is one more push of that signature, and nothing else
\* is pushed.
C25_PreFilter ==
    [][\A message \in env.messages :
         OnTransaction(message) =>
            LET expected ==
                    /\ message.hasSignature
                    /\ IF Len(message.logs) > 0
                       THEN hasMigrationIndicators(message.logs)
                       ELSE TRUE
            IN  /\ expected =>
                      enqCount' = [enqCount EXCEPT ![message.signature] = @ + 1]
                /\ ~expected =>
                      /\ enqCount' = enqCount
                      /\ pendingFetches' = pendingFetches
                      /\ drains' = drains]_vars

\* two events have been handled: B1 was enqueued once (the notification
\* without log lines), and the other event (without indicators or without a
\* signature) was not
C25_Witness ==
    /\ events = 2
    /\ enqCount["B1"] = 1
    /\ \A s \in Signatures \ {"B1"} : enqCount[s] = 0

\* C26: a signature that is in the Dedup Ledger is never enqueued again from
\* a stream notification: a step of the stream callback for a signature that
\* is in processedSignatures pushes nothing.
C26_LedgeredNotReEnqueued ==
    [][\A message \in env.messages :
         (/\ OnTransaction(message)
          /\ message.hasSignature
          /\ InSeq(processedSignatures, message.signature))
            => enqCount' = enqCount]_vars

\* M1 was classified and entered the ledger, and a later notification for M1,
\* arriving when M1 was neither queued nor in flight, has put it in the queue
\* again
C26_Witness ==
    /\ InSeq(processedSignatures, "M1")
    /\ classifyCount["M1"] = 1
    /\ enqCount["M1"] = 2
    /\ "M1" \notin dupQueued
    /\ \/ \E i \in 1..Len(pendingFetches) : pendingFetches[i].signature = "M1"
       \/ \E i \in 1..Len(drains) : drains[i].signature = "M1"

\* C27: after the shutdown handler has called disconnect(), the stream
\* connection is closed and stays closed: the client holds no socket, no socket
\* is open or connecting, no reconnect timer is pending, and from then on no
\* socket is created (connect() is not called) and no stream event is
\* forwarded to the orchestrator.
C27_ClosedAfterDisconnect ==
    [][exited' =>
          /\ ws' = 0
          /\ \A k \in 1..Len(sockets') : sockets'[k] \in {"CLOSING", "CLOSED"}
          /\ ~ReconnectPending(timers')
          /\ ~pingInterval'
          /\ exited => /\ Len(sockets') = Len(sockets)
                       /\ forwarded' = forwarded
                       /\ reconnectAttempts' = reconnectAttempts]_vars

\* the shutdown handler has run on a connection that was open and had
\* forwarded a stream event: its socket is closing
C27_Witness ==
    /\ exited
    /\ lastOpened >= 1
    /\ forwarded # <<>>
    /\ sockets[lastOpened] = "CLOSING"

\* C28: a token-data failure is not fatal.  When fetchTokenData answers null
\* for a migration with a mint, sendMigrationAlert is called for it with the
\* placeholder name 'Unknown Token' and that mint, and the signature is in the
\* Dedup Ledger; when that call returns, the signature is still in the ledger
\* and the drain loop goes on: it ends on an empty queue, otherwise it waits
\* for the rate limit or takes the next item.
C28_TokenDataFailureNonFatal ==
    [][\A i \in 1..Len(drains) :
         /\ TokenDataReturn(i, FALSE) =>
               /\ alerts' = Append(alerts, [signature |-> drains[i].signature,
                                            tokenMint |-> drains[i].mint,
                                            name      |-> "Unknown Token"])
               /\ InSeq(processedSignatures', drains[i].signature)
               /\ \E j \in 1..Len(drains') :
                      /\ drains'[j].signature = drains[i].signature
                      /\ drains'[j].pc = "alert"
               /\ pendingFetches' = pendingFetches
         /\ (AlertReturn(i) /\ drains[i].basic) =>
               /\ alerts' = alerts
               /\ processedSignatures' = processedSignatures
               /\ InSeq(processedSignatures', drains[i].signature)
               /\ IF pendingFetches = <<>>
                  THEN ~isProcessingQueue' /\ pendingFetches' = <<>>
                  ELSE \/ /\ pendingFetches' = pendingFetches
                          /\ isProcessingQueue'
                          /\ \E j \in 1..Len(drains') : drains'[j].pc = "sleep"
                       \/ Len(pendingFetches') < Len(pendingFetches)]_vars

\* the alert for M1 was sent with the placeholder name after fetchTokenData
\* answered null, the call has returned, and the loop has gone on to the next
\* signature
C28_Witness ==
    /\ \E i \in 1..Len(alerts) :
           alerts[i] = [signature |-> "M1", tokenMint |-> ADDR_PumpA, name |-> "Unknown Token"]
    /\ InSeq(processedSignatures, "M1")
    /\ fetchCount["M2"] >= 1

\* the chat ids of USER_CHAT_IDS that are numbers
ConfigIds ==
    {parseInt(userChatIds[i]).value : i \in {j \in 1..Len(userChatIds) : ~parseInt(userChatIds[j]).nan}}

\* the last message of the chat that holds /start or /stop, 0 if there is none
LastToggle(chatId) ==
    LET toggles == {i \in 1..Len(commands) :
                      /\ commands[i].chatId = chatId
                      /\ Includes(commands[i].text, TXT_start) \/ Includes(commands[i].text, TXT_stop)}
    IN  IF toggles = {} THEN 0 ELSE CHOOSE i \in toggles : \A j \in toggles : j <= i

\* the chat is subscribed: it was in USER_CHAT_IDS and has sent neither
\* command, or its last command did not hold /stop
Subscribed(chatId) ==
    IF LastToggle(chatId) = 0 THEN chatId \in ConfigIds
    ELSE ~Includes(commands[LastToggle(chatId)].text, TXT_stop)

\* C29: sendMigrationAlert starts one send for every subscribed chat id (the
\* ids of USER_CHAT_IDS plus those that sent /start minus those that sent
\* /stop, in command order) and for no other; a failed send is caught, does
\* not touch the other sends, and the call returns normally once every send
\* has settled.
C29_EverySubscriberAttempted ==
    [][/\ CallSendMigrationAlert =>
            LET new == SubSeq(sends', Len(sends) + 1, Len(sends'))
                subscribed == {chatId \in ChatIds \cup ConfigIds : Subscribed(chatId)}
            IN  /\ {new[i].chatId : i \in 1..Len(new)} = subscribed
                /\ Len(new) = Cardinality(subscribed)
                /\ \A i \in 1..Len(new) : new[i].n = Len(results) + 1
       /\ \A i \in 1..Len(call.promises) :
            SendSettles(i, FALSE) =>
                /\ call'.active
                /\ call'.promises[i].state = "fulfilled"
                /\ \A j \in 1..Len(call.promises) \ {i} : call'.promises[j] = call.promises[j]
                /\ sends' = sends /\ results' = results
       /\ AlertCompletes =>
            /\ results' = Append(results, "resolved")
            /\ \A i \in 1..Len(call.promises) : call.promises[i].state = "fulfilled"]_vars

\* in a call of sendMigrationAlert for two chats, one of which subscribed by
\* /start, the first send has failed and the second has succeeded
C29_Witness ==
    /\ call.active
    /\ Len(call.promises) = 2
    /\ call.promises[1].state = "fulfilled" /\ call.promises[1].logged
    /\ call.promises[2].state = "fulfilled" /\ ~call.promises[2].logged
    /\ \E i \in 1..Len(commands) : commands[i].text = TXT_start
    /\ Cardinality(ConfigIds) = 1

\* the tokenMint of the MigrationEvent that fetchAndProcessTransaction hands on
\* for the record: the detector's mint, else the parser's own extraction;
\* Undefined when nothing is handed on
DownstreamMint ==
    LET migration == parseMigrationTransactionFromParsed(dTx, dResult.tokenMint, "SIG1")
    IN  IF dDone /\ ~dThrew /\ dResult.isMigration /\ ~migration.isNull
        THEN migration.tokenMint
        ELSE Undefined

\* C30: the tokenMint of a MigrationEvent handed downstream is never a known
\* system or token-program address and never config.pumpFunProgramId, also
\* when the detector found no mint and the parser's extraction supplies it.
C30_MintNeverKnownProgram ==
    DownstreamMint \notin {SYSTEM_PROGRAM, TOKEN_PROGRAM, TOKEN_2022_PROGRAM,
                           ASSOCIATED_TOKEN_PROGRAM, pumpFunProgramId}

\* C30 under the default program id
C30_MintNeverKnownProgram_Default ==
    env.pumpFunProgramId = DEFAULT_PUMP_FUN_PROGRAM_ID => C30_MintNeverKnownProgram

\* with a configured program id of 44 characters, the detector has found no
\* mint for a migration and the parser has supplied the watched program's own
\* address
C30_Witness ==
    /\ dDone /\ dResult.isMigration
    /\ ~Truthy(dResult.tokenMint)
    /\ env.pumpFunProgramId = CUSTOM_PROGRAM_ID
    /\ DownstreamMint = pumpFunProgramId

SkipsNow(signature) ==
    /\ outcome' = Ended(signature, "skipped")
    /\ outcome' # outcome

\* C32: a dequeued signature that is already in the Dedup Ledger is skipped.
\* No fetch is ever issued for a signature that is in the ledger; and the step
\* that skips a signature issues no fetch, sends no alert, and leaves the
\* signature in the ledger; when no call was in flight before the step, the
\* detector is not run and the ledger is unchanged.
C32_LedgeredSkipped ==
    [][\A signature \in Signatures :
         /\ fetchCount'[signature] > fetchCount[signature]
               => ~InSeq(processedSignatures', signature)
         /\ SkipsNow(signature) =>
               /\ fetchCount' = fetchCount
               /\ alerts' = alerts
               /\ InSeq(processedSignatures', signature)
               /\ (\A i \in 1..Len(drains) : drains[i].pc = "sleep") =>
                     /\ InSeq(processedSignatures, signature)
                     /\ classifyCount' = classifyCount
                     /\ processedSignatures' = processedSignatures]_vars

\* M1 was fetched and classified once and is in the ledger; its second queue
\* entry has been dequeued and skipped
C32_Witness ==
    /\ outcome = Ended("M1", "skipped")
    /\ enqCount["M1"] = 2
    /\ fetchCount["M1"] = 1
    /\ classifyCount["M1"] = 1
    /\ InSeq(processedSignatures, "M1")

\* seq is what is left of whole after taking items off its front
IsSuffix(seq, whole) ==
    /\ Len(seq) <= Len(whole)
    /\ seq = SubSeq(whole, Len(whole) - Len(seq) + 1, Len(whole))

\* C33: the queue is first-in-first-out.  In every step pendingFetches changes
\* only by a push at its back (a fresh enqueue or a retry re-enqueue, stamped
\* with the clock) and by shifts from its front, so an item that entered
\* before another leaves before it, and a retried signature leaves after
\* every item that was queued when its timer fired.
C33_Fifo ==
    [][\/ IsSuffix(pendingFetches', pendingFetches)
       \/ \E signature \in Signatures :
             IsSuffix(pendingFetches',
                      Append(pendingFetches, [signature |-> signature, timestamp |-> now']))]_vars

\* the retry of M1 is queued behind X1, which was queued before the retry
\* timer fired
C33_Witness ==
    /\ Len(pendingFetches) = 2
    /\ pendingFetches[1].signature = "X1"
    /\ pendingFetches[2].signature = "M1"
    /\ fetchCount["M1"] = 1
    /\ enqCount["M1"] = 1
    /\ n429 = 1

\* signature s is waiting in pendingFetches
Queued(s) == \E i \in 1..Len(pendingFetches) : pendingFetches[i].signature = s

\* C34: no wakeup is lost. Between two turns of the event loop, whenever
\* pendingFetches is non-empty isProcessingQueue is true, and whenever
\* isProcessingQueue is true a call of processFetchQueue is suspended at an
\* await (so the flag is never left set by a loop that has ended); and when
\* every timer fires and every awaited call settles, every signature waiting
\* in the queue eventually leaves it.
C34_NoLostWakeup ==
    /\ [](pendingFetches # <<>> => isProcessingQueue)
    /\ [](isProcessingQueue => Len(drains) >= 1)
    /\ \A s \in Signatures : Queued(s) ~> ~Queued(s)

\* a signature was pushed while the loop was suspended on the fetch of another
\* one, and the loop has since taken it from the queue and ended
C34_Witness ==
    /\ ~isProcessingQueue
    /\ pendingFetches = <<>>
    /\ drains = <<>>
    /\ enqCount["M1"] = 1
    /\ enqCount["X1"] = 1
    /\ fetchCount["M1"] = 1
    /\ fetchCount["X1"] = 1
    /\ outcome.signature = "X1"

\* the number of calls of sendMigrationAlert made for signature s
AlertCount(s) == Len(SelectSeq(alerts, LAMBDA a : a.signature = s))

\* C35: a signature that is in processedSignatures has had at most one call
\* of sendMigrationAlert, however often the stream delivered it, however many
\* copies of it were queued and whatever the 429 retry timers re-enqueued.
C35_OneAlertPerSignature ==
    \A s \in Signatures : InSeq(processedSignatures, s) => AlertCount(s) <= 1

\* M1 was delivered three times, one copy queued behind another; its first
\* fetch was rate limited and the retry timer has fired; every copy has left
\* the queue and one alert was sent
C35_Witness ==
    /\ enqCount["M1"] = 3
    /\ "M1" \in dupQueued
    /\ n429 = 1
    /\ retryTimers = <<>>
    /\ pendingFetches = <<>>
    /\ drains = <<>>
    /\ InSeq(processedSignatures, "M1")
    /\ AlertCount("M1") = 1

\* the record has log lines, and the notification carried the same lines
HasLogLines(tx) ==
    ~tx.null /\ tx.meta.present /\ tx.meta.hasLogs /\ Len(tx.meta.logMessages) > 0

C36_MarkerPassesPreFilter ==
    (dDone /\ dFile = "part_000" /\ ~dThrew /\ HasLogLines(dTx) /\ dResult.isMigration
       /\ LogsContain(dTx, MARKER_MIGRATE))
        => hasMigrationIndicators(dTx.meta.logMessages)

C37_SubscribeOncePerConnection ==
    /\ [][\A id \in RequestIds :
             SubscribeTimerFires(id) =>
                IF WsOpen(Client)
                THEN /\ Head(timers).origin = ws
                     /\ sentId = NullId
                     /\ sentId' = Number(id)
                ELSE sentId' = sentId]_vars
    /\ []((~sentId.null /\ ws # 0) => (lastOpened = ws /\ sockets[ws] # "CONNECTING"))

\* the first socket has closed, the reconnect timer has made a second one,
\* which has opened, and the subscribe request has been sent on it
C37_Witness ==
    /\ Len(sockets) = 2
    /\ sockets[1] = "CLOSED"
    /\ WsOpen(Client)
    /\ ws = 2
    /\ ~sentId.null
    /\ timers = <<>>

\* C38: reconnectAttempts is between 0 and maxReconnectAttempts in every
\* state, and it is 0 at the end of every step in which a socket emits 'open'.
C38_AttemptsInRange ==
    /\ [](0 <= reconnectAttempts /\ reconnectAttempts <= maxReconnectAttempts)
    /\ [][\A k \in 1..Len(sockets) : SocketOpens(k) => reconnectAttempts' = 0]_vars

\* two sockets closed before they opened, the third has just emitted 'open':
\* the two attempts counted so far are forgotten
C38_Witness ==
    /\ Len(sockets) = 3
    /\ sockets[1] = "CLOSED"
    /\ sockets[2] = "CLOSED"
    /\ lastOpened = 3
    /\ Len(timers) = 1
    /\ timers[1].kind = "subscribe"
    /\ reconnectAttempts = 0

\* C39: isReconnecting is true exactly when the reconnect timer is pending,
\* that is when reconnectInterval is non-null: after any sequence of
\* connect(), disconnect(), 'open', 'close' and timer events the flag is not
\* left true without a timer.
C39_FlagMatchesTimer ==
    /\ isReconnecting <=> reconnectInterval
    /\ reconnectInterval <=> ReconnectPending(timers)

\* the same in the states that 'open', 'close' and the timers lead to,
\* before disconnect() is called
C39_FlagMatchesTimerWhileRunning ==
    ~exited => (/\ isReconnecting <=> reconnectInterval
                /\ reconnectInterval <=> ReconnectPending(timers))

\* disconnect() was called while a reconnect was scheduled: the timer is
\* cleared and the flag is still set
C39_Witness ==
    /\ exited
    /\ ws = 0
    /\ isReconnecting
    /\ ~reconnectInterval
    /\ ~ReconnectPending(timers)

\* what is left of the deliveries of signature s: its items in the queue, its
\* fetch in flight and its pending retry timers
Chain(queue, calls, timerList, s) ==
    Len(SelectSeq(queue, LAMBDA x : x.signature = s))
    + Len(SelectSeq(calls, LAMBDA d : d.signature = s))
    + Len(SelectSeq(timerList, LAMBDA timer : timer.signature = s))

\* signature s was delivered once and dispatched, and every one of its
\* fetches is answered with a rate-limit error
RetriedOnly(s) == s \in env.rateLimited /\ enqCount[s] = 1 /\ fetchCount[s] >= 1

\* C40 as stated: a signature that is rate limited at every fetch is never
\* dropped. Delivered once and dispatched, it is from then on always in the
\* queue, in flight or waiting for its retry timer.
C40_RetriedNeverDropped ==
    \A s \in Signatures :
        RetriedOnly(s) => Chain(pendingFetches, drains, retryTimers, s) = 1

\* C40, amended: there is no bound on the retries and the retry carries the
\* time of its re-enqueue. Every fetch of the signature that is answered
\* with a rate-limit error sets a retry timer, whatever the number of earlier
\* retries; the timer puts the signature in the queue with the clock as its
\* timestamp; and the signature leaves the queue, the fetch and the timers
\* altogether only in a step that finds its queued item older than staleLimit,
\* counted from that timestamp.
C40_RetryUnlessStale ==
    [][\A s \in Signatures :
         (RetriedOnly(s) /\ enqCount'[s] = 1) =>
            /\ Chain(pendingFetches', drains', retryTimers', s) <= 1
            /\ Chain(pendingFetches', drains', retryTimers', s)
                   < Chain(pendingFetches, drains, retryTimers, s) =>
                  \E k \in 1..Len(pendingFetches) :
                      /\ pendingFetches[k].signature = s
                      /\ now' - pendingFetches[k].timestamp > staleLimit
            /\ (/\ Len(retryTimers') < Len(retryTimers)
                /\ Head(retryTimers).signature = s) =>
                  \/ /\ pendingFetches' # <<>>
                     /\ pendingFetches'[Len(pendingFetches')] =
                            [signature |-> s, timestamp |-> now']
                  \/ /\ item' = [signature |-> s, timestamp |-> now']
                     /\ fetchCount'[s] = fetchCount[s] + 1]_vars

\* M1 was delivered once and its fetch has been rate limited twice: it is
\* being fetched for the third time, more than staleLimit after the start
C40_Witness ==
    /\ enqCount["M1"] = 1
    /\ fetchCount["M1"] = 3
    /\ \E i \in 1..Len(drains) : drains[i].pc = "fetch" /\ drains[i].signature = "M1"
    /\ item.signature = "M1"
    /\ now - item.timestamp <= staleLimit
    /\ now - StartTime > staleLimit

=============================================================================
